---- MODULE Spec2Model ----
(***************************************************************************)
(* Symbol resolution, workspace index and completion context               *)
(* classification of the LDL language support (parser.ts, the providers'   *)
(* getParserForDocument, completionProvider.ts).                           *)
(*                                                                         *)
(* Text is a sequence of tokens.  A token stands for the run of characters *)
(* one of the parser's regular expressions consumes as a unit; white space *)
(* other than the line break is implicit between tokens, so String.trim()  *)
(* of a line is the line's token sequence.  Offsets are 0-based as in the  *)
(* source: offset i names text[i + 1].                                     *)
(***************************************************************************)
EXTENDS Integers, Sequences, FiniteSets, TLC

VARIABLES
    document,      \* parser scenario: the text of the open document
    parser,        \* the LDLParser instance: [symbols, labelIndex]
    op,            \* name of the last operation performed
    args,          \* arguments of the last lookup
    result,        \* return value of the last operation, as a sequence
    dropped,       \* history: the last parse found fewer symbols than the table held
    files,         \* workspace: uri -> [content, mtime]
    parsedDocuments, \* a provider's Map<uri, {parser, lastModified}>
    pending,       \* getParserForDocument calls suspended at `await stat`
    created,       \* number of LDLParser instances the provider has constructed
    returned,      \* what the last completed getParserForDocument call returned
    lineText,      \* completion: the characters of the line the cursor is on
    character,     \* completion: position.character
    now,           \* completion: Date.now()
    completionCache, \* completion: Map<cacheKey, {completions, timestamp}>
    generators,    \* completion: the generators the last request invoked, in order
    completions,   \* completion: what the last request returned
    usageHistory,  \* completion: Map<symbol, {frequency, lastUsed, contexts}>
    contextHistory, \* completion: the names last accepted, oldest first
    accepted       \* history: every name updateUsageStats was called with, in order

parserVars == <<document, parser, op, args, result, dropped>>

indexVars == <<files, parsedDocuments, pending, created, returned>>

completionVars == <<lineText, character, now, completionCache, generators, completions,
                    usageHistory, contextHistory, accepted>>

vars == <<document, parser, op, args, result, dropped, files, parsedDocuments, pending,
          created, returned, lineText, character, now, completionCache, generators,
          completions, usageHistory, contextHistory, accepted>>

\* The JavaScript value undefined (also an absent optional field).
Undefined == "undefined"

-----------------------------------------------------------------------------
(* Tokens *)

Tok(t, name, arg) == [t |-> t, name |-> name, arg |-> arg]

NL == Tok("nl", "", "")              \* "\n"
LBrace == Tok("{", "", "")
RBrace == Tok("}", "", "")
DQuote == Tok("dq", "", "")          \* a double quote
SQuote == Tok("sq", "", "")          \* a single quote
Code == Tok("code", "", "")          \* other text: no keyword, brace, quote, '@' or '//' in it
At == Tok("at", "", "")              \* text starting with '@' that is no well-formed @label("...")
Cmt == Tok("cmt", "", "")            \* a // line comment (not ///)
Static == Tok("static", "", "")      \* the modifier `static`
ClassTok(name, parent) == Tok("class", name, parent)   \* `class Name` [`extends Parent`]
FnTok(name, version) == Tok("fn", name, version)       \* `fn name` [`(... version: "v" ...)`]
PipelineTok(name) == Tok("pipeline", name, "")         \* `pipeline name`
UsingTok(name, target) == Tok("using", name, target)   \* `using Name = Type`
MacroTok(name, value) == Tok("macro", name, value)     \* `macro NAME value`
ConstTok(name, value) == Tok("const", name, value)     \* `const NAME = value`
LabelTok(value) == Tok("label", value, "")             \* `@label("value")`
DocTok(text) == Tok("doc", text, "")                   \* `/// text`

Max(S) == CHOOSE x \in S : \A y \in S : y <= x

\* String.prototype.substring(0, end) on token text.
Substring0(text, end) == SubSeq(text, 1, end)

\* String.prototype.substring(start, end).
Substring(text, start, end) == SubSeq(text, start + 1, end)

\* String.prototype.lastIndexOf for a one-token needle of kind t; -1 when absent.
LastIndexOf(text, t) ==
    LET S == {i \in 1..Len(text) : text[i].t = t}
    IN  IF S = {} THEN -1 ELSE Max(S) - 1

\* The offsets 0 .. text.length - 1, ascending.
Offsets(text) == [i \in 1..Len(text) |-> i - 1]

\* The offsets of the tokens of kind t, ascending: where a /g regular expression
\* whose match is that token matches.
MatchesOf(text, t) ==
    LET IsMatch(i) == text[i + 1].t = t
    IN  SelectSeq(Offsets(text), IsMatch)

\* String.prototype.split('\n'): always at least one (possibly empty) line.
SplitLines(text) ==
    LET nl == MatchesOf(text, "nl")
        n == Len(nl)
    IN  [k \in 1..(n + 1) |->
            SubSeq(text, IF k = 1 THEN 1 ELSE nl[k - 1] + 2,
                         IF k = n + 1 THEN Len(text) ELSE nl[k])]

\* vscode.TextDocument.positionAt(offset): 0-based line and character.
PositionAt(text, offset) ==
    LET before == {i \in 1..offset : text[i].t = "nl"}
        lastNl == IF before = {} THEN 0 ELSE Max(before)
    IN  [line |-> Cardinality(before), character |-> offset - lastNl]

-----------------------------------------------------------------------------
(* Map<string, LDLSymbol[]>: entries in key insertion order *)

NewMap == <<>>

MapHas(m, k) == \E i \in 1..Len(m) : m[i].key = k

MapGet(m, k) ==
    IF MapHas(m, k) THEN m[CHOOSE i \in 1..Len(m) : m[i].key = k].val ELSE <<>>

\* map.set(k, v): an existing key keeps its place.
MapSet(m, k, v) ==
    IF MapHas(m, k)
    THEN [i \in 1..Len(m) |-> IF m[i].key = k THEN [key |-> k, val |-> v] ELSE m[i]]
    ELSE Append(m, [key |-> k, val |-> v])

\* The concatenation of a sequence of sequences.
RECURSIVE ConcatAll(_)
ConcatAll(seqs) == IF seqs = <<>> THEN <<>> ELSE Head(seqs) \o ConcatAll(Tail(seqs))

\* For each entry e of kv in order:
\*     if (!map.has(e.key)) map.set(e.key, []); map.get(e.key).push(e.val)
\* A key keeps the place of its first insertion; a bucket grows at its end.
MapPushAll(m, kv) ==
    LET IsNewKey(i) == ~MapHas(m, kv[i].key) /\ \A j \in 1..(i - 1) : kv[j].key # kv[i].key
        newIdx == SelectSeq([i \in 1..Len(kv) |-> i], IsNewKey)
        ValsOf(k) ==
            LET HasKey(e) == e.key = k
                sel == SelectSeq(kv, HasKey)
            IN  [i \in 1..Len(sel) |-> sel[i].val]
    IN  [i \in 1..Len(m) |-> [key |-> m[i].key, val |-> m[i].val \o ValsOf(m[i].key)]]
        \o [i \in 1..Len(newIdx) |->
               [key |-> kv[newIdx[i]].key, val |-> ValsOf(kv[newIdx[i]].key)]]

-----------------------------------------------------------------------------
(* parser.ts *)

\* interface LDLSymbol.  Absent fields are Undefined; an absent labels list is
\* <<>> and an absent isStatic is FALSE (the code only tests them for truth).
LDLSymbol(name, position, type, version, value, aliasType, className, parentClass, isStatic, labels, documentation) ==
    [name |-> name, position |-> position, type |-> type, version |-> version,
     value |-> value, aliasType |-> aliasType, className |-> className,
     parentClass |-> parentClass, isStatic |-> isStatic, labels |-> labels,
     documentation |-> documentation]

\* line.match(/^@label\(["']([^"']+)["']\)$/) on the trimmed line
IsLabelLine(line) == Len(line) = 1 /\ line[1].t = "label"

\* line.startsWith('///')
StartsWithDoc(line) == Len(line) >= 1 /\ line[1].t = "doc"

\* line.startsWith('@')
StartsWithAt(line) == Len(line) >= 1 /\ line[1].t \in {"label", "at"}

\* line.startsWith('//')
StartsWithSlashes(line) == Len(line) >= 1 /\ line[1].t \in {"doc", "cmt"}

\* if (line !== '' && !line.startsWith('@') && !line.startsWith('//')) break
StopsScan(line) == line # <<>> /\ ~StartsWithAt(line) /\ ~StartsWithSlashes(line)

AppendLabelStep(acc, line) ==
    CASE IsLabelLine(line) ->
             [labels |-> Append(acc.labels, line[1].name), documentation |-> acc.documentation]
      [] ~IsLabelLine(line) /\ StartsWithDoc(line) ->
             [labels |-> acc.labels, documentation |-> line[1].name]
      [] OTHER -> acc

KeepFirstDocStep(acc, line) ==
    CASE IsLabelLine(line) ->
             [labels |-> <<line[1].name>> \o acc.labels, documentation |-> acc.documentation]
      [] ~IsLabelLine(line) /\ StartsWithDoc(line) /\ acc.documentation = Undefined ->
             [labels |-> acc.labels, documentation |-> line[1].name]
      [] OTHER -> acc

\* One iteration of the backward loop of parseLabelsAndDocumentation on `line`,
\* when it does not break: acc is [labels, documentation].
\*     labels.unshift(labelMatch[1]); continue
\*     documentation = line.substring(3).trim(); continue
ScanStep(acc, line) ==
    CASE IsLabelLine(line) ->
             [labels |-> <<line[1].name>> \o acc.labels, documentation |-> acc.documentation]
      [] ~IsLabelLine(line) /\ StartsWithDoc(line) ->
             [labels |-> acc.labels, documentation |-> line[1].name]
      [] OTHER -> acc

\* for (let i = lines.length - 1; i >= 0; i--) { ... }: lines[i] is the line at hand.
RECURSIVE ScanLines(_, _, _)
ScanLines(lines, i, acc) ==
    IF i < 1 \/ (~IsLabelLine(lines[i]) /\ ~StartsWithDoc(lines[i]) /\ StopsScan(lines[i]))
    THEN acc
    ELSE ScanLines(lines, i - 1, ScanStep(acc, lines[i]))

parseLabelsAndDocumentation(text, startIndex) ==
    LET lines == SplitLines(Substring0(text, startIndex))
    IN  ScanLines(lines, Len(lines), [labels |-> <<>>, documentation |-> Undefined])

\* addToLabelIndex(symbol): the pushes onto labelIndex, one per label in order.
addToLabelIndex(symbol) ==
    [j \in 1..Len(symbol.labels) |-> [key |-> symbol.labels[j], val |-> symbol]]

\* For each symbol in order:
\*     if (!this.symbols.has(name)) this.symbols.set(name, []);
\*     this.symbols.get(name).push(symbol); this.addToLabelIndex(symbol)
\* (the type_alias, macro and constant parsers skip addToLabelIndex: their
\* symbols have no labels, so it would add nothing).
AddSymbols(p, symbols) ==
    [symbols |-> MapPushAll(p.symbols,
                     [i \in 1..Len(symbols) |-> [key |-> symbols[i].name, val |-> symbols[i]]]),
     labelIndex |-> MapPushAll(p.labelIndex,
                     ConcatAll([i \in 1..Len(symbols) |-> addToLabelIndex(symbols[i])]))]

\* One iteration of the loop of findClassEndIndex on `char` when it does not
\* return: st is [braceCount, inString, stringChar]; escaped tells whether the
\* character before is a backslash.
BraceStep(st, char, escaped) ==
    CASE ~st.inString /\ char \in {"dq", "sq"} ->
             [braceCount |-> st.braceCount, inString |-> TRUE, stringChar |-> char]
      [] ~st.inString /\ char = "{" ->
             [braceCount |-> st.braceCount + 1, inString |-> FALSE, stringChar |-> st.stringChar]
      [] ~st.inString /\ char = "}" ->
             [braceCount |-> st.braceCount - 1, inString |-> FALSE, stringChar |-> st.stringChar]
      [] st.inString /\ char = st.stringChar /\ ~escaped ->
             [braceCount |-> st.braceCount, inString |-> FALSE, stringChar |-> st.stringChar]
      [] OTHER -> st

\* for (let i = startIndex; i < text.length; i++) { ... } return text.length
RECURSIVE FindClassEndFrom(_, _, _)
FindClassEndFrom(text, i, st) ==
    IF i >= Len(text) THEN Len(text)
    ELSE IF ~st.inString /\ text[i + 1].t = "}" /\ st.braceCount - 1 = 0 THEN i + 1
    ELSE FindClassEndFrom(text, i + 1,
             BraceStep(st, text[i + 1].t, i >= 1 /\ text[i].t = "bs"))

findClassEndIndex(text, startIndex) ==
    FindClassEndFrom(text, startIndex, [braceCount |-> 0, inString |-> FALSE, stringChar |-> ""])

\* The method symbols parseClassMethods pushes, in order.  methodRegex matches the
\* `fn` tokens of classBody, a match starting at a directly preceding `static`.
parseClassMethods(text, className, classStartIndex) ==
    LET classEndIndex == findClassEndIndex(text, classStartIndex)
        classBody == Substring(text, classStartIndex, classEndIndex)
        M == MatchesOf(classBody, "fn")
    IN  [k \in 1..Len(M) |->
            LET j == M[k]
                isStatic == j >= 1 /\ classBody[j].t = "static"
                matchIndex == IF isStatic THEN j - 1 ELSE j
                ld == parseLabelsAndDocumentation(text, classStartIndex + matchIndex)
            IN  LDLSymbol(classBody[j + 1].name,
                          PositionAt(text, classStartIndex + matchIndex),
                          "method", classBody[j + 1].arg, Undefined, Undefined,
                          className, Undefined, isStatic, ld.labels, ld.documentation)]

\* The symbols parseClasses pushes, in order: per match of classRegex the class
\* symbol, then the methods of its body.
parseClasses(text) ==
    LET M == MatchesOf(text, "class")
    IN  ConcatAll([k \in 1..Len(M) |->
            LET i == M[k]
                ld == parseLabelsAndDocumentation(text, i)
            IN  <<LDLSymbol(text[i + 1].name, PositionAt(text, i), "class", Undefined,
                            Undefined, Undefined, Undefined, text[i + 1].arg, FALSE,
                            ld.labels, ld.documentation)>>
                \o parseClassMethods(text, text[i + 1].name, i)])

isInsideClass(text, position) ==
    LET beforeText == Substring0(text, position)
        lastClassIndex == LastIndexOf(beforeText, "class")
        lastBraceIndex == LastIndexOf(beforeText, "}")
    IN  lastClassIndex > lastBraceIndex /\ lastClassIndex # -1

\* fnRegex /(?:^|\n)\s*(fn ...)/gm matches a `fn` token that is first on its line;
\* match.index is the start of the white space before it: the first line break of
\* the run of line breaks before the token, or 0 when the run starts the text.
FnMatchIndex(text, i) ==
    LET S == {k \in 0..i : \A q \in (k + 1)..i : text[q].t = "nl"}
    IN  CHOOSE k \in S : \A k2 \in S : k <= k2

FnAtLineStart(text, i) == i = 0 \/ text[i].t = "nl"

\* The offsets of the `fn` tokens fnRegex matches.
FnMatches(text) ==
    LET IsMatch(i) == text[i + 1].t = "fn" /\ FnAtLineStart(text, i)
    IN  SelectSeq(Offsets(text), IsMatch)

\* The symbols parseFunctions pushes, in order.
parseFunctions(text) ==
    LET TopLevel(i) == ~isInsideClass(text, FnMatchIndex(text, i))
        M == SelectSeq(FnMatches(text), TopLevel)
    IN  [k \in 1..Len(M) |->
            LET i == M[k]
                ld == parseLabelsAndDocumentation(text, FnMatchIndex(text, i))
            IN  LDLSymbol(text[i + 1].name, PositionAt(text, i), "function",
                          text[i + 1].arg, Undefined, Undefined, Undefined,
                          Undefined, FALSE, ld.labels, ld.documentation)]

\* The symbols parsePipelines pushes, in order.
parsePipelines(text) ==
    LET M == MatchesOf(text, "pipeline")
    IN  [k \in 1..Len(M) |->
            LET i == M[k]
                ld == parseLabelsAndDocumentation(text, i)
            IN  LDLSymbol(text[i + 1].name, PositionAt(text, i), "pipeline", Undefined,
                          Undefined, Undefined, Undefined, Undefined, FALSE,
                          ld.labels, ld.documentation)]

\* The symbols parseTypeAliases pushes, in order.
parseTypeAliases(text) ==
    LET M == MatchesOf(text, "using")
    IN  [k \in 1..Len(M) |->
            LDLSymbol(text[M[k] + 1].name, PositionAt(text, M[k]), "type_alias", Undefined,
                      Undefined, text[M[k] + 1].arg, Undefined, Undefined, FALSE, <<>>,
                      Undefined)]

\* The symbols parseMacros pushes, in order.
parseMacros(text) ==
    LET M == MatchesOf(text, "macro")
    IN  [k \in 1..Len(M) |->
            LDLSymbol(text[M[k] + 1].name, PositionAt(text, M[k]), "macro", Undefined,
                      text[M[k] + 1].arg, Undefined, Undefined, Undefined, FALSE, <<>>,
                      Undefined)]

\* The symbols parseConstants pushes, in order.
parseConstants(text) ==
    LET M == MatchesOf(text, "const")
    IN  [k \in 1..Len(M) |->
            LDLSymbol(text[M[k] + 1].name, PositionAt(text, M[k]), "constant", Undefined,
                      text[M[k] + 1].arg, Undefined, Undefined, Undefined, FALSE, <<>>,
                      Undefined)]

\* new LDLParser()
NewParser == [symbols |-> NewMap, labelIndex |-> NewMap]

KeepTables(p) == p

\* this.symbols.clear(); this.labelIndex.clear()
ClearTables(p) == NewParser

FunctionsBeforeClasses(p, text) ==
    AddSymbols(ClearTables(p),
        parseFunctions(text) \o parseClasses(text) \o parsePipelines(text)
        \o parseTypeAliases(text) \o parseMacros(text) \o parseConstants(text))

\* clear both maps, then run the six parsers in turn, each pushing its symbols
parseDocument(p, text) ==
    AddSymbols(ClearTables(p),
        parseClasses(text) \o parseFunctions(text) \o parsePipelines(text)
        \o parseTypeAliases(text) \o parseMacros(text) \o parseConstants(text))

\* Array.prototype.find over the elements a filter keeps: the first one, as a
\* sequence of at most one element (empty for undefined).
First(seq) == IF seq = <<>> THEN <<>> ELSE <<seq[1]>>

\* A JavaScript string in a condition: undefined and "" are false.
Truthy(s) == s # Undefined /\ s # ""

FirstOfBucket(p, name, version, className) ==
    IF MapHas(p.symbols, name) THEN <<MapGet(p.symbols, name)[1]>> ELSE <<>>

findSymbol(p, name, version, className) ==
    LET symbols == MapGet(p.symbols, name)
        OfClass(s) == s.className = className
        OfVersion(s) == s.version = version
        classMethod == First(SelectSeq(symbols, OfClass))
    IN  IF ~MapHas(p.symbols, name) THEN <<>>
        ELSE IF Truthy(className) /\ classMethod # <<>> THEN classMethod
        ELSE IF Truthy(version) THEN First(SelectSeq(symbols, OfVersion))
        ELSE <<symbols[1]>>

findAllSymbols(p, name, version, className) ==
    LET symbols == MapGet(p.symbols, name)
        OfClass(s) == s.className = className
        OfVersion(s) == s.version = version
        classMethods == SelectSeq(symbols, OfClass)
    IN  IF ~MapHas(p.symbols, name) THEN <<>>
        ELSE IF Truthy(className) /\ Len(classMethods) > 0
        THEN IF Truthy(version) THEN SelectSeq(classMethods, OfVersion) ELSE classMethods
        ELSE IF Truthy(version) THEN SelectSeq(symbols, OfVersion)
        ELSE symbols

findSymbolsByLabel(p, label) == MapGet(p.labelIndex, label)

RECURSIVE FlattenFrom(_, _)
FlattenFrom(m, i) == IF i > Len(m) THEN <<>> ELSE m[i].val \o FlattenFrom(m, i + 1)

getAllSymbols(p) == FlattenFrom(p.symbols, 1)

-----------------------------------------------------------------------------
(* Bounded inputs *)

MaxLines == 4

\* Lines of a document that declares a type, its methods and free functions.
SourceLines ==
    { <<ClassTok("T", Undefined), LBrace>>,
      <<FnTok("m", Undefined)>>,
      <<FnTok("m", "a")>>,
      <<FnTok("m", "b")>>,
      <<FnTok("m", Undefined), LBrace>>,
      <<RBrace>> }

\* lines.join('\n')
RECURSIVE JoinFrom(_, _)
JoinFrom(lines, i) ==
    IF i > Len(lines) THEN <<>>
    ELSE IF i = Len(lines) THEN lines[i]
    ELSE lines[i] \o <<NL>> \o JoinFrom(lines, i + 1)

Join(lines) == JoinFrom(lines, 1)

LineSeqs(alphabet, n) == UNION {[1..k -> alphabet] : k \in 0..n}

SourceDocs == {Join(ls) : ls \in LineSeqs(SourceLines, MaxLines)}

Names == {"m"}
Versions == {Undefined, "a", "b"}
ClassNames == {Undefined, "T"}

NoArgs == [name |-> Undefined, version |-> Undefined, className |-> Undefined]

\* A provider that has served no request: private parsedDocuments = new Map().
IndexIdle ==
    /\ files = <<>>
    /\ parsedDocuments = NewMap
    /\ pending = {}
    /\ created = 0
    /\ returned = <<>>

\* A completion provider that has served no request:
\* private completionCache = new Map().
CompletionIdle ==
    /\ lineText = <<>>
    /\ character = 0
    /\ now = 0
    /\ completionCache = NewMap
    /\ generators = <<>>
    /\ completions = <<>>
    /\ usageHistory = NewMap
    /\ contextHistory = <<>>
    /\ accepted = <<>>

-----------------------------------------------------------------------------
(* Operations on one LDLParser instance *)

Init ==
    /\ document \in SourceDocs
    /\ parser = NewParser
    /\ op = "new"
    /\ args = NoArgs
    /\ result = <<>>
    /\ dropped = FALSE
    /\ IndexIdle
    /\ CompletionIdle

\* parser.parseDocument(document)
ParseDocument ==
    /\ parser' = parseDocument(parser, document)
    /\ op' = "parseDocument"
    /\ args' = NoArgs
    /\ result' = <<>>
    /\ dropped' = (Len(getAllSymbols(parser')) < Len(getAllSymbols(parser)))
    /\ UNCHANGED document
    /\ UNCHANGED <<indexVars, completionVars>>

\* parser.findSymbol(name, version, className)
FindSymbol ==
    \E name \in Names, version \in Versions, className \in ClassNames :
        /\ op' = "findSymbol"
        /\ args' = [name |-> name, version |-> version, className |-> className]
        /\ result' = findSymbol(parser, name, version, className)
        /\ UNCHANGED <<document, parser, dropped>>
        /\ UNCHANGED <<indexVars, completionVars>>

\* parser.findAllSymbols(name, version, className)
FindAllSymbols ==
    \E name \in Names, version \in Versions, className \in ClassNames :
        /\ op' = "findAllSymbols"
        /\ args' = [name |-> name, version |-> version, className |-> className]
        /\ result' = findAllSymbols(parser, name, version, className)
        /\ UNCHANGED <<document, parser, dropped>>
        /\ UNCHANGED <<indexVars, completionVars>>

Next == ParseDocument \/ FindSymbol \/ FindAllSymbols

Spec == Init /\ [][Next]_vars

-----------------------------------------------------------------------------
(* Editing the open document between two parses of the same parser instance *)

EditLines ==
    { <<ClassTok("T", Undefined), LBrace>>,
      <<FnTok("m", Undefined)>>,
      <<FnTok("m", "a")>>,
      <<LabelTok("x")>> }

EditDocs == {Join(ls) : ls \in LineSeqs(EditLines, MaxLines)}

RemoveAt(seq, i) == [k \in 1..(Len(seq) - 1) |-> IF k < i THEN seq[k] ELSE seq[k + 1]]

InitEdit ==
    /\ document \in EditDocs
    /\ parser = NewParser
    /\ op = "new"
    /\ args = NoArgs
    /\ result = <<>>
    /\ dropped = FALSE
    /\ IndexIdle
    /\ CompletionIdle

\* The user deletes one line of the document the completion provider parses.
DeleteLine ==
    \E i \in 1..Len(SplitLines(document)) :
        /\ document # <<>>
        /\ document' = Join(RemoveAt(SplitLines(document), i))
        /\ op' = "edit"
        /\ args' = NoArgs
        /\ result' = <<>>
        /\ UNCHANGED <<parser, dropped>>
        /\ UNCHANGED <<indexVars, completionVars>>

\* parser.getAllSymbols()
GetAllSymbols ==
    /\ op' = "getAllSymbols"
    /\ args' = NoArgs
    /\ result' = getAllSymbols(parser)
    /\ UNCHANGED <<document, parser, dropped>>
    /\ UNCHANGED <<indexVars, completionVars>>

NextEdit == ParseDocument \/ DeleteLine \/ GetAllSymbols

SpecEdit == InitEdit /\ [][NextEdit]_vars

-----------------------------------------------------------------------------
(* Properties of the lookups *)

Bucket(name) == MapGet(parser.symbols, name)

InSeq(x, seq) == \E i \in 1..Len(seq) : seq[i] = x

HasFunction(name) == \E i \in 1..Len(Bucket(name)) : Bucket(name)[i].type = "function"

HasMethodOf(name, owner) ==
    \E i \in 1..Len(Bucket(name)) :
        Bucket(name)[i].type = "method" /\ Bucket(name)[i].className = owner

HasVersion(name, version) ==
    \E i \in 1..Len(Bucket(name)) : Bucket(name)[i].version = version

\* The table holds a free function and a method of the type T of one name.
FunctionAndMethod(name) == HasFunction(name) /\ HasMethodOf(name, "T")

\* C1 as stated: with a free function and a method of T of one name in the table,
\* findSymbol(name, undefined, T) returns the method and findSymbol(name) returns
\* the free function.
C1_OwnerThenFreeFunction ==
    (op = "findSymbol" /\ args.version = Undefined /\ FunctionAndMethod(args.name)) =>
        /\ Len(result) = 1
        /\ args.className = "T" => (result[1].type = "method" /\ result[1].className = "T")
        /\ args.className = Undefined => result[1].type = "function"

\* C1 amended: findSymbol(name, undefined, T) returns the method of T, and
\* findSymbol(name) returns the first-inserted symbol of the name bucket, which is
\* never the free function: type bodies are parsed before free functions.
C1_OwnerThenFirstInserted ==
    (op = "findSymbol" /\ args.version = Undefined /\ FunctionAndMethod(args.name)) =>
        /\ Len(result) = 1
        /\ args.className = "T" => (result[1].type = "method" /\ result[1].className = "T")
        /\ args.className = Undefined =>
               (result[1] = Bucket(args.name)[1] /\ result[1].type # "function")

C1_Witness ==
    /\ op = "findSymbol" /\ args.version = Undefined /\ args.className = Undefined
    /\ FunctionAndMethod(args.name)
    /\ result # <<>> /\ result[1].type = "method"

\* C2: with declarations of one name tagged v1 and v2 (v1 # v2) in the table,
\* findSymbol(name, v1) returns a declaration tagged v1, and
\* findAllSymbols(name, v1) is exactly the declarations tagged v1.
C2_OverloadResolution ==
    \A v1 \in Versions \ {Undefined}, v2 \in Versions \ {Undefined} :
        (/\ v1 # v2
         /\ args.version = v1 /\ args.className = Undefined
         /\ HasVersion(args.name, v1) /\ HasVersion(args.name, v2)) =>
            /\ op = "findSymbol" =>
                   /\ Len(result) = 1
                   /\ InSeq(result[1], Bucket(args.name))
                   /\ result[1].version = v1
            /\ op = "findAllSymbols" =>
                   /\ result # <<>>
                   /\ \A i \in 1..Len(result) : result[i].version = v1
                   /\ \A i \in 1..Len(Bucket(args.name)) :
                          Bucket(args.name)[i].version = v1 => InSeq(Bucket(args.name)[i], result)

C2_Witness ==
    /\ op = "findSymbol" /\ args.version = "b" /\ args.className = Undefined
    /\ HasVersion(args.name, "a") /\ HasVersion(args.name, "b")
    /\ Bucket(args.name)[1].version = "a"
    /\ result # <<>> /\ result[1].version = "b"

\* C3 as stated: when owner and version are both given and the owner has a symbol
\* of that name, findSymbol and findAllSymbols return only symbols owned by that
\* type and tagged with that version.
C3_OwnerAndVersion ==
    (/\ op \in {"findSymbol", "findAllSymbols"}
     /\ args.className # Undefined /\ args.version # Undefined
     /\ \E i \in 1..Len(Bucket(args.name)) : Bucket(args.name)[i].className = args.className) =>
        \A i \in 1..Len(result) :
            result[i].className = args.className /\ result[i].version = args.version

\* A `fn` token at offset i lies inside the body of a type declared at offset c.
InsideTypeBody(text, i) ==
    \E c \in 0..(Len(text) - 1) :
        text[c + 1].t = "class" /\ c < i /\ i < findClassEndIndex(text, c)

\* C8 as stated: no fn inside a type body is recorded as a free Function symbol.
C8_NoFunctionInsideType ==
    op = "parseDocument" =>
        \A i \in 0..(Len(document) - 1) :
            (document[i + 1].t = "fn" /\ InsideTypeBody(document, i)) =>
                \A k \in 1..Len(Bucket(document[i + 1].name)) :
                    Bucket(document[i + 1].name)[k].position = PositionAt(document, i) =>
                        Bucket(document[i + 1].name)[k].type = "method"

-----------------------------------------------------------------------------
(* Properties of reparsing *)

\* The token a symbol was declared by, at the symbol's position in the text.
DeclaredAt(text, s) ==
    \E i \in 0..(Len(text) - 1) :
        /\ PositionAt(text, i) = s.position
        /\ \/ text[i + 1].t \in {"class", "fn", "pipeline", "using", "macro", "const"}
              /\ text[i + 1].name = s.name
           \/ text[i + 1].t = "static" /\ i + 1 < Len(text) /\ text[i + 2].name = s.name

\* C5: right after parseDocument the symbol table and the label index are exactly
\* those a new parser builds from the document: every symbol is declared in the
\* current text and every indexed symbol is in the table.
C5_ParseReplaces ==
    op = "parseDocument" =>
        /\ parser = parseDocument(NewParser, document)
        /\ \A i \in 1..Len(getAllSymbols(parser)) : DeclaredAt(document, getAllSymbols(parser)[i])
        /\ \A k \in 1..Len(parser.labelIndex) : \A i \in 1..Len(parser.labelIndex[k].val) :
               /\ InSeq(parser.labelIndex[k].val[i], getAllSymbols(parser))
               /\ InSeq(parser.labelIndex[k].key, parser.labelIndex[k].val[i].labels)

C5_Witness ==
    /\ op = "parseDocument" /\ dropped
    /\ parser.symbols # NewMap /\ parser.labelIndex # NewMap

-----------------------------------------------------------------------------
(* Documents with annotation, comment and code lines above a declaration *)

MaxAbove == 3

AboveLines ==
    { <<LabelTok("x")>>, <<LabelTok("y")>>, <<DocTok("d1")>>, <<DocTok("d2")>>,
      <<>>, <<Cmt>>, <<At>>, <<Code>> }

\* The declarations below the lines: a function, a type, a pipeline, a constant,
\* a static method on its own line inside a type, and a method that shares its
\* line with the start of its type.
AnnotatedDocs ==
    UNION { { Join(above \o << <<FnTok("m", Undefined)>> >>),
              Join(above \o << <<ClassTok("T", Undefined), LBrace>> >>),
              Join(above \o << <<PipelineTok("p")>> >>),
              Join(above \o << <<ConstTok("N", "1")>> >>),
              Join(<< <<ClassTok("T", Undefined), LBrace>> >> \o above
                   \o << <<Static, FnTok("m", Undefined)>> >>),
              Join(above \o << <<ClassTok("T", Undefined), LBrace, FnTok("m", Undefined)>> >>) }
            : above \in LineSeqs(AboveLines, MaxAbove) }

Labels == {"x", "y"}

InitLabels ==
    /\ document \in AnnotatedDocs
    /\ parser = NewParser
    /\ op = "new"
    /\ args = NoArgs
    /\ result = <<>>
    /\ dropped = FALSE
    /\ IndexIdle
    /\ CompletionIdle

\* parser.findSymbolsByLabel(label)
FindSymbolsByLabel ==
    \E label \in Labels :
        /\ op' = "findSymbolsByLabel"
        /\ args' = [name |-> label, version |-> Undefined, className |-> Undefined]
        /\ result' = findSymbolsByLabel(parser, label)
        /\ UNCHANGED <<document, parser, dropped>>
        /\ UNCHANGED <<indexVars, completionVars>>

NextLabels == ParseDocument \/ FindSymbolsByLabel

SpecLabels == InitLabels /\ [][NextLabels]_vars

-----------------------------------------------------------------------------
(* Properties of label and documentation capture *)

\* The offset a position names: the inverse of PositionAt.
OffsetAt(text, position) ==
    CHOOSE i \in 0..Len(text) : PositionAt(text, i) = position

\* A line that belongs to the block above a declaration: blank, an annotation
\* or a comment.
InBlock(line) == line = <<>> \/ StartsWithAt(line) \/ StartsWithSlashes(line)

\* The block directly before a declaration at `offset`: the longest run of block
\* lines that ends where the declaration starts (what precedes the declaration on
\* its own line is the last of these lines).
BlockAbove(text, offset) ==
    LET lines == SplitLines(Substring0(text, offset))
        starts == {k \in 1..(Len(lines) + 1) : \A j \in k..Len(lines) : InBlock(lines[j])}
        first == CHOOSE k \in starts : \A k2 \in starts : k <= k2
    IN  SubSeq(lines, first, Len(lines))

\* The values of the @label lines of a block, in source order.
LabelValues(block) ==
    LET sel == SelectSeq(block, IsLabelLine)
    IN  [i \in 1..Len(sel) |-> sel[i][1].name]

\* The texts of the /// lines of a block, in source order.
DocTexts(block) ==
    LET sel == SelectSeq(block, StartsWithDoc)
    IN  [i \in 1..Len(sel) |-> sel[i][1].name]

CapturesLabels(s) == s.type \in {"class", "method", "function", "pipeline"}

\* C6 as stated: for every declaration the captured labels are the values of the
\* @label lines of the block directly above it, in source order.
C6_LabelsOfEveryDeclaration ==
    op = "parseDocument" =>
        \A i \in 1..Len(getAllSymbols(parser)) :
            LET s == getAllSymbols(parser)[i]
            IN  s.labels = LabelValues(BlockAbove(document, OffsetAt(document, s.position)))

\* C6 amended: for every type, method, function and pipeline declaration the
\* captured labels are exactly the values of the @label lines of the block
\* directly above it, in source order; blank lines do not end the block, the first
\* other line that is neither an annotation nor a comment does.
C6_LabelsOfLabelledKinds ==
    op = "parseDocument" =>
        \A i \in 1..Len(getAllSymbols(parser)) :
            LET s == getAllSymbols(parser)[i]
            IN  CapturesLabels(s) =>
                    s.labels = LabelValues(BlockAbove(document, OffsetAt(document, s.position)))

C6_Witness ==
    /\ op = "parseDocument"
    /\ document = Join(<< <<LabelTok("x")>>, <<>>, <<LabelTok("y")>>, <<FnTok("m", Undefined)>> >>)
    /\ \E i \in 1..Len(Bucket("m")) : Bucket("m")[i].labels = <<"x", "y">>

\* C7 as stated: with several /// lines in the scanned block, the documentation
\* recorded is the text of the one closest to the declaration.
C7_ClosestDocComment ==
    op = "parseDocument" =>
        \A i \in 1..Len(getAllSymbols(parser)) :
            LET s == getAllSymbols(parser)[i]
                docs == DocTexts(BlockAbove(document, OffsetAt(document, s.position)))
            IN  (CapturesLabels(s) /\ Len(docs) >= 2) => s.documentation = docs[Len(docs)]

\* C7 amended: with several /// lines in the scanned block, the documentation
\* recorded is the text of the one farthest from the declaration (the last one met
\* by the backward scan); nearer ones are overwritten.
C7_FarthestDocComment ==
    op = "parseDocument" =>
        \A i \in 1..Len(getAllSymbols(parser)) :
            LET s == getAllSymbols(parser)[i]
                docs == DocTexts(BlockAbove(document, OffsetAt(document, s.position)))
            IN  (CapturesLabels(s) /\ Len(docs) >= 2) => s.documentation = docs[1]

C7_Witness ==
    /\ op = "parseDocument"
    /\ document = Join(<< <<DocTok("d1")>>, <<DocTok("d2")>>, <<FnTok("m", Undefined)>> >>)
    /\ \E i \in 1..Len(Bucket("m")) : Bucket("m")[i].documentation = "d1"

-----------------------------------------------------------------------------
(* The per-provider cache of parsed documents (definition, reference and   *)
(* workspace-symbol providers share this code)                             *)

MaxMtime == 1
MaxParsers == 2
MaxInFlight == 1

Uris == {"a.ldl", "b.ldl"}

Contents ==
    { Join(<< <<FnTok("m", Undefined)>> >>), Join(<< <<FnTok("m", "a")>> >>) }

\* A provider that uses no LDLParser of its own outside the cache.
ParserIdle ==
    /\ document = <<>>
    /\ parser = NewParser
    /\ op = "new"
    /\ args = NoArgs
    /\ result = <<>>
    /\ dropped = FALSE

InitIndex ==
    /\ files \in [Uris -> [content : Contents, mtime : {0}]]
    /\ parsedDocuments = NewMap
    /\ pending = {}
    /\ created = 0
    /\ returned = <<>>
    /\ ParserIdle
    /\ CompletionIdle

\* The text of an open document changes (an edit in the editor): getText() sees
\* it at once, the modification time on disk does not move.
EditDocument ==
    \E uri \in Uris, content \in Contents :
        /\ content # files[uri].content
        /\ files' = [files EXCEPT ![uri].content = content]
        /\ UNCHANGED <<parsedDocuments, pending, created, returned>>
        /\ UNCHANGED <<parserVars, completionVars>>

\* The modification time stat reports for a file changes (a save, a touch, a
\* restored copy): any other value, later or earlier.
SetMtime ==
    \E uri \in Uris, mtime \in 0..MaxMtime :
        /\ mtime # files[uri].mtime
        /\ files' = [files EXCEPT ![uri].mtime = mtime]
        /\ UNCHANGED <<parsedDocuments, pending, created, returned>>
        /\ UNCHANGED <<parserVars, completionVars>>

\* getParserForDocument up to its suspension:
\*     const lastModified = (await vscode.workspace.fs.stat(document.uri)).mtime
StatDocument ==
    \E uri \in Uris :
        /\ Cardinality(pending) < MaxInFlight
        /\ pending' = pending \cup {[uri |-> uri, lastModified |-> files[uri].mtime]}
        /\ UNCHANGED <<files, parsedDocuments, created, returned>>
        /\ UNCHANGED <<parserVars, completionVars>>

StrictlyNewer(cache, uri, lastModified) ==
    /\ MapHas(cache, uri)
    /\ MapGet(cache, uri).lastModified > lastModified

\* cached && cached.lastModified >= lastModified
CacheValid(cache, uri, lastModified) ==
    /\ MapHas(cache, uri)
    /\ MapGet(cache, uri).lastModified >= lastModified

\* new LDLParser(); parser.parseDocument(document): the instance is told from
\* every other by its id.
FreshParser(id, content) == [id |-> id, table |-> parseDocument(NewParser, content)]

\* getParserForDocument from the cache lookup to its return, for the call `call`.
GetParserForDocument(call) ==
    /\ pending' = pending \ {call}
    /\ IF CacheValid(parsedDocuments, call.uri, call.lastModified)
       THEN /\ returned' = <<[uri |-> call.uri,
                              parser |-> MapGet(parsedDocuments, call.uri).parser]>>
            /\ UNCHANGED <<parsedDocuments, created>>
       ELSE /\ created < MaxParsers
            /\ created' = created + 1
            /\ parsedDocuments' =
                   MapSet(parsedDocuments, call.uri,
                          [parser |-> FreshParser(created + 1, files[call.uri].content),
                           lastModified |-> call.lastModified])
            /\ returned' = <<[uri |-> call.uri,
                              parser |-> FreshParser(created + 1, files[call.uri].content)]>>
    /\ UNCHANGED files
    /\ UNCHANGED <<parserVars, completionVars>>

ResumeCall == \E call \in pending : GetParserForDocument(call)

\* clearCache(): this.parsedDocuments.clear()
ClearCache ==
    /\ parsedDocuments' = NewMap
    /\ UNCHANGED <<files, pending, created, returned>>
    /\ UNCHANGED <<parserVars, completionVars>>

NextIndex == EditDocument \/ SetMtime \/ StatDocument \/ ResumeCall \/ ClearCache

SpecIndex == InitIndex /\ [][NextIndex]_vars

-----------------------------------------------------------------------------
(* Properties of the cache of parsed documents *)

\* The call returns the cached parser itself and constructs none.
ReturnsCached(call) ==
    /\ returned' = <<[uri |-> call.uri, parser |-> MapGet(parsedDocuments, call.uri).parser]>>
    /\ created' = created
    /\ parsedDocuments' = parsedDocuments

\* The call constructs a parser, parses the document's current text with it,
\* stores it under the observed modification time and returns it.
Reparses(call) ==
    /\ created' = created + 1
    /\ returned'[1].uri = call.uri
    /\ returned'[1].parser.id = created'
    /\ returned'[1].parser.table = parseDocument(NewParser, files[call.uri].content)
    /\ MapGet(parsedDocuments', call.uri) =
           [parser |-> returned'[1].parser, lastModified |-> call.lastModified]

\* C4: a getParserForDocument call that finds an entry whose timestamp the
\* observed modification time has not advanced past returns the very same cached
\* parser without reparsing; one that observes an advanced modification time
\* reparses the current content and replaces the entry, whatever the content;
\* clearCache empties the cache, and a call that finds no entry always reparses.
C4_CacheStaleness ==
    [][ /\ \A call \in pending :
               GetParserForDocument(call) =>
                   IF MapHas(parsedDocuments, call.uri)
                   THEN IF call.lastModified > MapGet(parsedDocuments, call.uri).lastModified
                        THEN Reparses(call)
                        ELSE ReturnsCached(call)
                   ELSE Reparses(call)
        /\ ClearCache => \A uri \in Uris : ~MapHas(parsedDocuments', uri) ]_vars

\* The last call returned an older parser than the newest one constructed, whose
\* table is no longer the parse of the file's current text: a cached table
\* returned without reparsing.
C4_Witness ==
    /\ returned # <<>>
    /\ returned[1].parser.id < created
    /\ MapHas(parsedDocuments, returned[1].uri)
    /\ MapGet(parsedDocuments, returned[1].uri).parser = returned[1].parser
    /\ returned[1].parser.table # parseDocument(NewParser, files[returned[1].uri].content)

-----------------------------------------------------------------------------
(* The completion provider's context classifier.  The text of the cursor's *)
(* line is a sequence of characters, as the classifier's regular           *)
(* expressions see it.                                                     *)

Lower ==
    {"a", "b", "c", "d", "e", "f", "g", "h", "i", "j", "k", "l", "m",
     "n", "o", "p", "q", "r", "s", "t", "u", "v", "w", "x", "y", "z"}

Upper ==
    {"A", "B", "C", "D", "E", "F", "G", "H", "I", "J", "K", "L", "M",
     "N", "O", "P", "Q", "R", "S", "T", "U", "V", "W", "X", "Y", "Z"}

Digits == {"0", "1", "2", "3", "4", "5", "6", "7", "8", "9"}

\* [a-zA-Z]
Alpha == Lower \cup Upper

\* [a-zA-Z_]
AlphaU == Alpha \cup {"_"}

\* \w
WordChars == AlphaU \cup Digits

\* \s within one line
WS == {" ", "\t"}

\* ["']
Quotes == {"\"", "'"}

\* [\s\{\}\(\),]
Delimiters == WS \cup {"{", "}", "(", ")", ","}

LabelOpen == <<"@", "l", "a", "b", "e", "l", "(">>
VersionWord == <<"v", "e", "r", "s", "i", "o", "n">>
LetWord == <<"l", "e", "t">>
ConstWord == <<"c", "o", "n", "s", "t">>
Arrow == <<"-", ">">>

\* (let|return|if|else|for|while)
KeywordWords ==
    { LetWord, <<"r", "e", "t", "u", "r", "n">>, <<"i", "f">>, <<"e", "l", "s", "e">>,
      <<"f", "o", "r">>, <<"w", "h", "i", "l", "e">> }

\* (let|const)
DeclarationWords == {LetWord, ConstWord}

AllIn(text, i, j, class) == \A k \in i..j : text[k] \in class

NoneIn(text, i, j, class) == \A k \in i..j : text[k] \notin class

\* The literal lit occupies text[i .. i + Len(lit) - 1].
HasLit(text, i, lit) ==
    /\ i + Len(lit) - 1 <= Len(text)
    /\ SubSeq(text, i, i + Len(lit) - 1) = lit

\* \s*[class]*$ matched from position p on.
TailSpacesThen(text, p, class) ==
    \E k \in (p - 1)..Len(text) :
        AllIn(text, p, k, WS) /\ AllIn(text, k + 1, Len(text), class)

\* \s+[class]*$ matched from position p on.
TailSpaces1Then(text, p, class) ==
    \E k \in p..Len(text) :
        AllIn(text, p, k, WS) /\ AllIn(text, k + 1, Len(text), class)

\* \b before the word character text[i].
WordBoundaryBefore(text, i) == i = 1 \/ text[i - 1] \notin WordChars

\* /@label\(\s*["']?$/ || /@label\(\s*["'][^"']*$/
isLabelContext(text) ==
    \/ \E i \in 1..Len(text) :
           /\ HasLit(text, i, LabelOpen)
           /\ \E k \in (i + 6)..Len(text) :
                  /\ AllIn(text, i + 7, k, WS)
                  /\ \/ k = Len(text)
                     \/ k + 1 = Len(text) /\ text[k + 1] \in Quotes
    \/ \E i \in 1..Len(text) :
           /\ HasLit(text, i, LabelOpen)
           /\ \E k \in (i + 6)..(Len(text) - 1) :
                  /\ AllIn(text, i + 7, k, WS)
                  /\ text[k + 1] \in Quotes
                  /\ NoneIn(text, k + 2, Len(text), Quotes)

\* A call position at the start of the line only.
LineStartOnly(text) == TailSpacesThen(text, 1, AlphaU)

\* /^\s*[a-zA-Z_]*$/ || /[\s\{\}\(\),]\s*[a-zA-Z_]*$/
isFunctionCallContext(text) ==
    \/ TailSpacesThen(text, 1, AlphaU)
    \/ \E i \in 1..Len(text) :
           text[i] \in Delimiters /\ TailSpacesThen(text, i + 1, AlphaU)

\* /^\s*[a-zA-Z]*$/ || /\b(let|return|if|else|for|while)\s+[a-zA-Z]*$/
isKeywordContext(text) ==
    \/ TailSpacesThen(text, 1, Alpha)
    \/ \E i \in 1..Len(text), word \in KeywordWords :
           /\ HasLit(text, i, word)
           /\ WordBoundaryBefore(text, i)
           /\ TailSpaces1Then(text, i + Len(word), Alpha)

\* /:\s*[a-zA-Z_]*$/ || /->\s*[a-zA-Z_]*$/
isTypeContext(text) ==
    \/ \E i \in 1..Len(text) :
           text[i] = ":" /\ TailSpacesThen(text, i + 1, AlphaU)
    \/ \E i \in 1..Len(text) :
           HasLit(text, i, Arrow) /\ TailSpacesThen(text, i + 2, AlphaU)

\* String.prototype.lastIndexOf for a character; -1 when absent.
lastIndexOf(text, char) ==
    LET at == {i \in 1..Len(text) : text[i] = char}
    IN  IF at = {} THEN -1 ELSE Max(at) - 1

\* String.prototype.indexOf for a character; -1 when absent.
indexOf(text, char) ==
    LET at == {i \in 1..Len(text) : text[i] = char}
    IN  IF at = {} THEN -1 ELSE (CHOOSE i \in at : \A j \in at : i <= j) - 1

\* lastOpenParen > lastCloseParen && nextCloseParen !== -1
isParameterContext(textBeforeCursor, line, position) ==
    LET afterCursor == SubSeq(line, position + 1, Len(line))
    IN  /\ lastIndexOf(textBeforeCursor, "(") > lastIndexOf(textBeforeCursor, ")")
        /\ indexOf(afterCursor, ")") # -1

\* /version\s*:\s*["']?[^"']*$/
isVersionContext(text) ==
    \E i \in 1..Len(text) :
        /\ HasLit(text, i, VersionWord)
        /\ \E c \in (i + 7)..Len(text) :
               /\ AllIn(text, i + 7, c - 1, WS)
               /\ text[c] = ":"
               /\ \E k \in c..Len(text) :
                      /\ AllIn(text, c + 1, k, WS)
                      /\ \/ NoneIn(text, k + 1, Len(text), Quotes)
                         \/ /\ k + 1 <= Len(text)
                            /\ text[k + 1] \in Quotes
                            /\ NoneIn(text, k + 2, Len(text), Quotes)

\* /\b(let|const)\s+\w*$/ || /^\s*\w*$/ || /[=\s]\w*$/
isVariableContext(text) ==
    \/ \E i \in 1..Len(text), word \in DeclarationWords :
           /\ HasLit(text, i, word)
           /\ WordBoundaryBefore(text, i)
           /\ TailSpaces1Then(text, i + Len(word), WordChars)
    \/ TailSpacesThen(text, 1, WordChars)
    \/ \E i \in 1..Len(text) :
           text[i] \in ({"="} \cup WS) /\ AllIn(text, i + 1, Len(text), WordChars)

\* textBeforeCursor.split(/\s+/).pop() || ''
LastWord(text) ==
    LET spaces == {i \in 1..Len(text) : text[i] \in WS}
    IN  IF spaces = {} THEN text ELSE SubSeq(text, Max(spaces) + 1, Len(text))

\* /^[a-zA-Z_]\w*$/
IsIdentifier(word) ==
    /\ Len(word) > 0
    /\ word[1] \in AlphaU
    /\ AllIn(word, 2, Len(word), WordChars)

AnyWordProvidesVariables(text) ==
    /\ Len(LastWord(text)) > 0
    /\ ~isLabelContext(text)
    /\ ~isVersionContext(text)
    /\ ~isTypeContext(text)

shouldProvideVariables(text) ==
    /\ Len(LastWord(text)) > 0
    /\ IsIdentifier(LastWord(text))
    /\ ~isLabelContext(text)
    /\ ~isVersionContext(text)
    /\ ~isTypeContext(text)

KeywordBeforeFunctionCall(textBeforeCursor, line, position) ==
    IF isLabelContext(textBeforeCursor) THEN "label"
    ELSE IF isKeywordContext(textBeforeCursor) THEN "keyword"
    ELSE IF isFunctionCallContext(textBeforeCursor) THEN "function"
    ELSE IF isTypeContext(textBeforeCursor) THEN "type"
    ELSE IF isParameterContext(textBeforeCursor, line, position) THEN "parameter"
    ELSE IF isVersionContext(textBeforeCursor) THEN "version"
    ELSE IF isVariableContext(textBeforeCursor) THEN "variable"
    ELSE "intelligent"

\* The if / else-if chain of provideCompletionItems: the generator whose items
\* are pushed first.
PrimaryGenerator(textBeforeCursor, line, position) ==
    IF isLabelContext(textBeforeCursor) THEN "label"
    ELSE IF isFunctionCallContext(textBeforeCursor) THEN "function"
    ELSE IF isKeywordContext(textBeforeCursor) THEN "keyword"
    ELSE IF isTypeContext(textBeforeCursor) THEN "type"
    ELSE IF isParameterContext(textBeforeCursor, line, position) THEN "parameter"
    ELSE IF isVersionContext(textBeforeCursor) THEN "version"
    ELSE IF isVariableContext(textBeforeCursor) THEN "variable"
    ELSE "intelligent"

\* The generator calls of one computed request, in order: the chain's, then the
\* variable provider's when shouldProvideVariables allows it.
GeneratorCalls(textBeforeCursor, line, position) ==
    << [site |-> "primary", generator |-> PrimaryGenerator(textBeforeCursor, line, position)] >>
    \o (IF shouldProvideVariables(textBeforeCursor)
        THEN << [site |-> "overlay", generator |-> "variable"] >>
        ELSE <<>>)

cacheTimeout == 30000
KeyTail == 20
CacheLimit == 100

\* textBeforeCursor.slice(-20)
SliceTail(text) == SubSeq(text, Max({1, Len(text) - KeyTail + 1}), Len(text))

\* `${uri}:${position.line}:${position.character}:${textBeforeCursor.slice(-20)}`
generateCacheKey(uri, line, position, textBeforeCursor) ==
    <<uri, line, position, SliceTail(textBeforeCursor)>>

KeepsAtTimeout(cache, cacheKey, time) ==
    IF MapHas(cache, cacheKey) /\ time - MapGet(cache, cacheKey).timestamp <= cacheTimeout
    THEN [cache |-> cache, cached |-> <<MapGet(cache, cacheKey).completions>>]
    ELSE [cache |-> SelectSeq(cache, LAMBDA e : e.key # cacheKey), cached |-> <<>>]

\* getCachedCompletions: the map afterwards and the completions found, if any.
getCachedCompletions(cache, cacheKey, time) ==
    IF MapHas(cache, cacheKey) /\ time - MapGet(cache, cacheKey).timestamp < cacheTimeout
    THEN [cache |-> cache, cached |-> <<MapGet(cache, cacheKey).completions>>]
    ELSE [cache |-> SelectSeq(cache, LAMBDA e : e.key # cacheKey), cached |-> <<>>]

cleanExpiredCache(cache, time) ==
    SelectSeq(cache, LAMBDA e : ~(time - e.val.timestamp > cacheTimeout))

cacheCompletions(cache, cacheKey, items, time) ==
    LET stored == MapSet(cache, cacheKey, [completions |-> items, timestamp |-> time])
    IN  IF Len(stored) > CacheLimit THEN cleanExpiredCache(stored, time) ELSE stored

MaxAtoms == 3
MaxTicks == 1

Atoms ==
    { LabelOpen, VersionWord, LetWord, Arrow,
      <<"\"">>, <<" ">>, <<"x">>, <<"1">>, <<"(">>, <<":">>, <<".">> }

TextsBeforeCursor == {ConcatAll(atoms) : atoms \in LineSeqs(Atoms, MaxAtoms)}

TextsAfterCursor == {<<>>, <<")">>}

CompletionUri == "a.ldl"

CompletionDocument == Join(<< <<FnTok("m", Undefined)>> >>)

InitCompletion ==
    /\ \E before \in TextsBeforeCursor, after \in TextsAfterCursor :
           /\ lineText = before \o after
           /\ character = Len(before)
    /\ now = 0
    /\ completionCache = NewMap
    /\ generators = <<>>
    /\ completions = <<>>
    /\ usageHistory = NewMap
    /\ contextHistory = <<>>
    /\ accepted = <<>>
    /\ document = CompletionDocument
    /\ parser = NewParser
    /\ op = "new"
    /\ args = NoArgs
    /\ result = <<>>
    /\ dropped = FALSE
    /\ IndexIdle

\* provideCompletionItems(document, position).  Each element of completions
\* stands for the items one generator call pushed; the ranking pass re-scores and
\* reorders items and drops none.
ProvideCompletionItems ==
    LET textBeforeCursor == SubSeq(lineText, 1, character)
        cacheKey == generateCacheKey(CompletionUri, 0, character, textBeforeCursor)
        lookup == getCachedCompletions(completionCache, cacheKey, now)
        calls == GeneratorCalls(textBeforeCursor, lineText, character)
        pushed == [i \in 1..Len(calls) |-> calls[i].generator]
    IN  /\ IF lookup.cached # <<>>
           THEN /\ op' = "cachedCompletions"
                /\ completions' = lookup.cached[1]
                /\ generators' = <<>>
                /\ completionCache' = lookup.cache
                /\ UNCHANGED <<parser, dropped>>
           ELSE /\ op' = "provideCompletionItems"
                /\ parser' = parseDocument(parser, document)
                /\ dropped' = (Len(getAllSymbols(parser')) < Len(getAllSymbols(parser)))
                /\ generators' = calls
                /\ completions' = pushed
                /\ completionCache' = cacheCompletions(lookup.cache, cacheKey, pushed, now)
        /\ args' = NoArgs
        /\ result' = <<>>
        /\ UNCHANGED <<document, lineText, character, now, usageHistory, contextHistory,
                       accepted>>
        /\ UNCHANGED indexVars

\* Date.now() advances.
Tick ==
    /\ now < MaxTicks * cacheTimeout
    /\ now' = now + cacheTimeout
    /\ UNCHANGED <<lineText, character, completionCache, generators, completions>>
    /\ UNCHANGED <<usageHistory, contextHistory, accepted>>
    /\ UNCHANGED <<parserVars, indexVars>>

NextCompletion == ProvideCompletionItems \/ Tick

SpecCompletion == InitCompletion /\ [][NextCompletion]_vars

-----------------------------------------------------------------------------
(* Properties of the context classifier *)

TextBeforeCursor == SubSeq(lineText, 1, character)

Priority == <<"label", "function", "keyword", "type", "parameter", "version", "variable">>

\* The predicate of a primary context holds of the current request.
Matches(context) ==
    CASE context = "label" -> isLabelContext(TextBeforeCursor)
      [] context = "function" -> isFunctionCallContext(TextBeforeCursor)
      [] context = "keyword" -> isKeywordContext(TextBeforeCursor)
      [] context = "type" -> isTypeContext(TextBeforeCursor)
      [] context = "parameter" -> isParameterContext(TextBeforeCursor, lineText, character)
      [] context = "version" -> isVersionContext(TextBeforeCursor)
      [] context = "variable" -> isVariableContext(TextBeforeCursor)

IsPrimaryCall(call) == call.site = "primary"

PrimaryCalls == SelectSeq(generators, IsPrimaryCall)

OverlayAdded == \E i \in 1..Len(generators) : generators[i].site = "overlay"

\* C9: every request that is computed runs exactly one primary generator, the
\* first in priority order whose predicate matches, and the intelligent-suggestion
\* fallback exactly when none of the seven matches.
C9_SingleWinner ==
    op = "provideCompletionItems" =>
        LET matching == {k \in 1..Len(Priority) : Matches(Priority[k])}
        IN  /\ Len(PrimaryCalls) = 1
            /\ PrimaryCalls[1].generator =
                   IF matching = {} THEN "intelligent"
                   ELSE Priority[CHOOSE k \in matching : \A j \in matching : k <= j]
            /\ PrimaryCalls[1].generator = "intelligent" <=> matching = {}

\* A request whose text matches a later predicate as well as the winner's.
C9_Witness ==
    /\ op = "provideCompletionItems"
    /\ PrimaryCalls[1].generator = "type"
    /\ Matches("version")
    /\ Matches("parameter")

TypedWord ==
    LET text == TextBeforeCursor
        starts == {k \in 1..(Len(text) + 1) : \A j \in k..Len(text) : text[j] \notin WS}
    IN  SubSeq(text, CHOOSE k \in starts : \A j \in starts : k <= j, Len(text))

-----------------------------------------------------------------------------
(* The completion provider's ranking pass.  Labels, details and sort keys  *)
(* are sequences of characters.                                            *)

LowerSeq ==
    <<"a", "b", "c", "d", "e", "f", "g", "h", "i", "j", "k", "l", "m",
      "n", "o", "p", "q", "r", "s", "t", "u", "v", "w", "x", "y", "z">>

UpperSeq ==
    <<"A", "B", "C", "D", "E", "F", "G", "H", "I", "J", "K", "L", "M",
      "N", "O", "P", "Q", "R", "S", "T", "U", "V", "W", "X", "Y", "Z">>

DigitSeq == <<"0", "1", "2", "3", "4", "5", "6", "7", "8", "9">>

\* String.prototype.toLowerCase
toLowerCase(text) ==
    [i \in 1..Len(text) |->
        IF text[i] \in Upper
        THEN LowerSeq[CHOOSE k \in 1..Len(UpperSeq) : UpperSeq[k] = text[i]]
        ELSE text[i]]

\* String.prototype.startsWith
startsWith(text, prefix) ==
    Len(prefix) <= Len(text) /\ SubSeq(text, 1, Len(prefix)) = prefix

\* String.prototype.includes
includes(text, part) ==
    \E i \in 1..(Len(text) - Len(part) + 1) : HasLit(text, i, part)

\* score += 100 on a prefix match, else 50 on a substring match
MatchScore(label, typed) ==
    IF startsWith(toLowerCase(label), toLowerCase(typed)) THEN 100
    ELSE IF includes(toLowerCase(label), toLowerCase(typed)) THEN 50
    ELSE 0

MinuteMs == 60000
FiveMinutesMs == 300000
HourMs == 3600000

\* The bonus for the age of the last use.
RecencyScore(timeDiff) ==
    IF timeDiff < MinuteMs THEN 30
    ELSE IF timeDiff < FiveMinutesMs THEN 20
    ELSE IF timeDiff < HourMs THEN 10
    ELSE 0

Min2(a, b) == IF a <= b THEN a ELSE b

FrequencyOnlyScore(usage, label, time) ==
    IF MapHas(usage, label)
    THEN Min2(MapGet(usage, label).frequency * 10, 50)
    ELSE 0

\* const usage = this.usageHistory.get(label); if (usage) { ... }
UsageScore(usage, label, time) ==
    IF MapHas(usage, label)
    THEN Min2(MapGet(usage, label).frequency * 10, 50)
         + RecencyScore(time - MapGet(usage, label).lastUsed)
    ELSE 0

\* context.currentFunction && item.detail?.includes(context.currentFunction);
\* an absent detail and an absent function name are the empty text.
ContextScore(detail, currentFunction) ==
    IF currentFunction # <<>> /\ includes(detail, currentFunction) THEN 25 ELSE 0

\* String(n).padStart(4, '0') for 0 <= n <= 9999
PadStart4(n) ==
    << DigitSeq[((n \div 1000) % 10) + 1], DigitSeq[((n \div 100) % 10) + 1],
       DigitSeq[((n \div 10) % 10) + 1], DigitSeq[(n % 10) + 1] >>

\* A key that starts with the score itself.
ScoreFirstKey(score, label) == PadStart4(score) \o <<"_">> \o label

\* `${String(1000 - score).padStart(4, '0')}_${item.label}`
SortTextOf(score, label) == PadStart4(1000 - score) \o <<"_">> \o label

\* The order of characters under localeCompare: punctuation, digits, letters.
CollationOrder == <<"_", "-", ".", "\"">> \o DigitSeq \o LowerSeq

CollationRank(char) == CHOOSE k \in 1..Len(CollationOrder) : CollationOrder[k] = char

\* a.localeCompare(b) < 0
LocaleLess(a, b) ==
    \E k \in 1..(Len(b)) :
        /\ k <= Len(a) + 1
        /\ SubSeq(a, 1, k - 1) = SubSeq(b, 1, k - 1)
        /\ \/ k = Len(a) + 1
           \/ k <= Len(a) /\ CollationRank(a[k]) < CollationRank(b[k])

\* Array.prototype.sort by sortText: stable.
SortBySortText(items) ==
    LET Place(i) ==
            Cardinality({j \in 1..Len(items) :
                \/ LocaleLess(items[j].sortText, items[i].sortText)
                \/ items[j].sortText = items[i].sortText /\ j < i}) + 1
    IN  [p \in 1..Len(items) |-> items[CHOOSE i \in 1..Len(items) : Place(i) = p]]

\* applyIntelligentRanking(completions, textBeforeCursor, context) with the usage
\* history and Date.now() it reads.
applyIntelligentRanking(items, textBeforeCursor, currentFunction, usage, time) ==
    LET typed == LastWord(textBeforeCursor)
        Score(item) ==
            MatchScore(item.label, typed) + UsageScore(usage, item.label, time)
            + ContextScore(item.detail, currentFunction)
    IN  SortBySortText([i \in 1..Len(items) |->
            [items[i] EXCEPT !.sortText = SortTextOf(Score(items[i]), items[i].label)]])

MaxFrequency == 6

RankLabels == { <<"a", "b">>, <<"b", "a">> }

RankDetails == { <<>>, <<"f", "n">> }

RankItems == [label : RankLabels, detail : RankDetails, sortText : {<<>>}]

\* Lists of two candidates with different labels.
RankLists == {<<a, b>> : a \in RankItems, b \in RankItems} \ {<<a, a>> : a \in RankItems}

RankTexts == { <<>>, <<"a">>, <<"x", " ", "B">> }

RankFunctions == { <<>>, <<"f">> }

Ages == {0, MinuteMs - 1, MinuteMs, FiveMinutesMs, HourMs}

\* What updateUsageStats can have recorded for one name by the time HourMs.
UsageRecords == [frequency : 1..MaxFrequency, lastUsed : {HourMs - age : age \in Ages}]

\* The usage histories over the two labels.
UsageHistories ==
    {<<>>}
    \cup { << [key |-> l, val |-> u] >> : l \in RankLabels, u \in UsageRecords }
    \cup { << [key |-> <<"a", "b">>, val |-> u], [key |-> <<"b", "a">>, val |-> v] >> :
             u \in UsageRecords, v \in UsageRecords }

InitRanking ==
    /\ usageHistory \in UsageHistories
    /\ contextHistory = <<>>
    /\ accepted = <<>>
    /\ now = HourMs
    /\ lineText = <<>>
    /\ character = 0
    /\ completionCache = NewMap
    /\ generators = <<>>
    /\ completions = <<>>
    /\ document = <<>>
    /\ parser = NewParser
    /\ op = "new"
    /\ args \in [items : RankLists, textBeforeCursor : RankTexts,
                  currentFunction : RankFunctions]
    /\ result = <<>>
    /\ dropped = FALSE
    /\ IndexIdle

\* One run of the ranking pass of provideCompletionItems on the candidates, text
\* and enclosing function held in args.
Rank ==
    /\ op' = "applyIntelligentRanking"
    /\ result' = applyIntelligentRanking(args.items, args.textBeforeCursor,
                                         args.currentFunction, usageHistory, now)
    /\ UNCHANGED <<document, parser, args, dropped>>
    /\ UNCHANGED <<indexVars, completionVars>>

NextRanking == Rank

SpecRanking == InitRanking /\ [][NextRanking]_vars

-----------------------------------------------------------------------------
(* Properties of the ranking pass *)

Ranked == op = "applyIntelligentRanking"

Recorded(item) == MapHas(usageHistory, item.label)

FrequencyOf(item) == MapGet(usageHistory, item.label).frequency

LastUsedOf(item) == MapGet(usageHistory, item.label).lastUsed

\* The prefix-match score of a candidate in the last ranking, read from the
\* candidate and the typed word.
PrefixScoreOf(item) ==
    LET typed == toLowerCase(LastWord(args.textBeforeCursor))
        label == toLowerCase(item.label)
    IN  IF Len(typed) <= Len(label) /\ \A k \in 1..Len(typed) : label[k] = typed[k]
        THEN 100
        ELSE IF \E i \in 0..(Len(label) - Len(typed)) :
                    \A k \in 1..Len(typed) : label[i + k] = typed[k]
             THEN 50 ELSE 0

\* The context bonus of a candidate in the last ranking.
ContextBonusOf(item) ==
    IF /\ args.currentFunction # <<>>
       /\ \E i \in 0..(Len(item.detail) - Len(args.currentFunction)) :
              \A k \in 1..Len(args.currentFunction) :
                  item.detail[i + k] = args.currentFunction[k]
    THEN 25 ELSE 0

\* The usage bonus of a candidate: ten per recorded use up to fifty, plus 30, 20
\* or 10 for a last use less than a minute, five minutes or an hour ago.
UsageBonusOf(item) ==
    IF ~Recorded(item) THEN 0
    ELSE (IF FrequencyOf(item) >= 5 THEN 50 ELSE 10 * FrequencyOf(item))
         + (CASE now - LastUsedOf(item) < 60000 -> 30
              [] now - LastUsedOf(item) >= 60000 /\ now - LastUsedOf(item) < 300000 -> 20
              [] now - LastUsedOf(item) >= 300000 /\ now - LastUsedOf(item) < 3600000 -> 10
              [] OTHER -> 0)

\* C11 as stated: of two candidates with the same prefix-match score, the one
\* with the higher recorded frequency sorts first, and with equal frequency the
\* one used more recently sorts first.
C11_FrequencyThenRecency ==
    Ranked =>
        \A i \in 1..Len(result), j \in 1..Len(result) :
            (/\ Recorded(result[i]) /\ Recorded(result[j])
             /\ PrefixScoreOf(result[i]) = PrefixScoreOf(result[j])) =>
                /\ FrequencyOf(result[i]) > FrequencyOf(result[j]) => i < j
                /\ (/\ FrequencyOf(result[i]) = FrequencyOf(result[j])
                    /\ LastUsedOf(result[i]) > LastUsedOf(result[j])) => i < j

\* C11 amended: of two candidates with the same prefix-match score and the same
\* context bonus, the one with the higher usage bonus (frequency part plus
\* recency part) sorts first; so with equal recency parts the higher frequency
\* sorts first while the lower is below five, and with equal frequency the one
\* in a more recent recency bucket sorts first.
C11_HigherUsageBonusFirst ==
    Ranked =>
        \A i \in 1..Len(result), j \in 1..Len(result) :
            (/\ PrefixScoreOf(result[i]) = PrefixScoreOf(result[j])
             /\ ContextBonusOf(result[i]) = ContextBonusOf(result[j])
             /\ UsageBonusOf(result[i]) > UsageBonusOf(result[j])) => i < j

\* Two recorded candidates in equal standing, the less often used one first in
\* the input, come out with the more often used one first.
C11_Witness ==
    /\ Ranked
    /\ Len(result) = 2
    /\ args.items[1].label = result[2].label
    /\ Recorded(result[1]) /\ Recorded(result[2])
    /\ PrefixScoreOf(result[1]) = PrefixScoreOf(result[2])
    /\ ContextBonusOf(result[1]) = ContextBonusOf(result[2])
    /\ LastUsedOf(result[1]) = LastUsedOf(result[2])
    /\ FrequencyOf(result[1]) > FrequencyOf(result[2])
    /\ LocaleLess(result[2].label, result[1].label)

-----------------------------------------------------------------------------
(* The usage learner: updateUsageStats *)

maxHistorySize == 50

MaxAccepts == 52
MaxOther == 1

\* The name accepted in the common case, and another one accepted now and then.
UsualName == "a"
OtherName == "b"

ContextTags == {Undefined, "c1"}

\* existing.frequency++ ... or this.usageHistory.set(symbol, {...})
RecordUse(usage, symbol, context, time) ==
    IF MapHas(usage, symbol)
    THEN LET existing == MapGet(usage, symbol)
         IN  MapSet(usage, symbol,
                 [frequency |-> existing.frequency + 1,
                  lastUsed |-> time,
                  contexts |-> IF Truthy(context) /\ ~InSeq(context, existing.contexts)
                               THEN Append(existing.contexts, context)
                               ELSE existing.contexts])
    ELSE MapSet(usage, symbol,
             [frequency |-> 1,
              lastUsed |-> time,
              contexts |-> IF Truthy(context) THEN <<context>> ELSE <<>>])

NeverShift(history, symbol) == Append(history, symbol)

\* this.contextHistory.push(symbol); shift() when longer than maxHistorySize
PushHistory(history, symbol) ==
    IF Len(history) + 1 > maxHistorySize
    THEN Tail(Append(history, symbol))
    ELSE Append(history, symbol)

InitUsage ==
    /\ usageHistory = NewMap
    /\ contextHistory = <<>>
    /\ accepted = <<>>
    /\ now = 0
    /\ lineText = <<>>
    /\ character = 0
    /\ completionCache = NewMap
    /\ generators = <<>>
    /\ completions = <<>>
    /\ ParserIdle
    /\ IndexIdle

\* updateUsageStats(symbol, context)
UpdateUsageStats ==
    \E symbol \in {UsualName, OtherName}, context \in ContextTags :
        /\ Len(accepted) < MaxAccepts
        /\ symbol = OtherName =>
               Cardinality({i \in 1..Len(accepted) : accepted[i] = OtherName}) < MaxOther
        /\ usageHistory' = RecordUse(usageHistory, symbol, context, now)
        /\ contextHistory' = PushHistory(contextHistory, symbol)
        /\ accepted' = Append(accepted, symbol)
        /\ UNCHANGED <<lineText, character, now, completionCache, generators, completions>>
        /\ UNCHANGED <<parserVars, indexVars>>

NextUsage == UpdateUsageStats

SpecUsage == InitUsage /\ [][NextUsage]_vars

-----------------------------------------------------------------------------
(* Properties of the usage learner *)

TimesAccepted(name) == Cardinality({i \in 1..Len(accepted) : accepted[i] = name})

\* C12: after any sequence of acceptances each name's frequency is the number
\* of times it was accepted, its contexts list holds no tag twice, and the
\* history is the last min(n, 50) accepted names in acceptance order.
C12_AcceptanceRecording ==
    /\ \A name \in {UsualName, OtherName} :
           /\ MapHas(usageHistory, name) <=> TimesAccepted(name) > 0
           /\ MapHas(usageHistory, name) =>
                  /\ MapGet(usageHistory, name).frequency = TimesAccepted(name)
                  /\ \A i, j \in 1..Len(MapGet(usageHistory, name).contexts) :
                         MapGet(usageHistory, name).contexts[i]
                             = MapGet(usageHistory, name).contexts[j] => i = j
    /\ Len(contextHistory) <= 50
    /\ Len(contextHistory) = (IF Len(accepted) < 50 THEN Len(accepted) ELSE 50)
    /\ \A k \in 1..Len(contextHistory) :
           contextHistory[k] = accepted[Len(accepted) - Len(contextHistory) + k]

\* More than fifty acceptances, the first of them of the other name, which the
\* history has dropped; a tag given twice for the usual name.
C12_Witness ==
    /\ Len(accepted) > 50
    /\ accepted[1] = OtherName
    /\ \A k \in 1..Len(contextHistory) : contextHistory[k] = UsualName
    /\ MapGet(usageHistory, UsualName).contexts = <<"c1">>
    /\ MapGet(usageHistory, OtherName).frequency = 1

-----------------------------------------------------------------------------
(* The completion cache over time: requests on a few lines, two of which   *)
(* differ only before the last 20 characters                               *)

LongTail == [i \in 1..KeyTail |-> "x"]

CacheTexts == { <<"x">>, <<"x">> \o LongTail, <<".">> \o LongTail }

InitCompletionCache ==
    /\ lineText \in CacheTexts
    /\ character = Len(lineText)
    /\ now = 0
    /\ completionCache = NewMap
    /\ generators = <<>>
    /\ completions = <<>>
    /\ usageHistory = NewMap
    /\ contextHistory = <<>>
    /\ accepted = <<>>
    /\ document = CompletionDocument
    /\ parser = NewParser
    /\ op = "new"
    /\ args = NoArgs
    /\ result = <<>>
    /\ dropped = FALSE
    /\ IndexIdle

\* The user rewrites the line; the cursor stays at its end.
Retype ==
    \E text \in CacheTexts :
        /\ text # lineText
        /\ lineText' = text
        /\ character' = Len(text)
        /\ UNCHANGED <<now, completionCache, generators, completions, usageHistory,
                       contextHistory, accepted>>
        /\ UNCHANGED <<parserVars, indexVars>>

\* The instants looked at: each multiple of the timeout up to MaxTicks of them,
\* and the millisecond before and after it.
Instants ==
    {k * cacheTimeout + e : k \in 0..MaxTicks, e \in {-1, 0, 1}}
    \cap (0..(MaxTicks * cacheTimeout))

\* Date.now() advances to a later instant.
Advance ==
    \E time \in Instants :
        /\ time > now
        /\ now' = time
        /\ UNCHANGED <<lineText, character, completionCache, generators, completions,
                       usageHistory, contextHistory, accepted>>
        /\ UNCHANGED <<parserVars, indexVars>>

NextCompletionCache == ProvideCompletionItems \/ Retype \/ Advance

SpecCompletionCache == InitCompletionCache /\ [][NextCompletionCache]_vars

-----------------------------------------------------------------------------
(* Properties of the completion cache *)

\* The key of the current request: document, line, column and the last 20
\* characters of the text before the cursor.
RequestKey ==
    LET text == TextBeforeCursor
        tail == [i \in 1..(IF Len(text) < 20 THEN Len(text) ELSE 20) |->
                    text[Len(text) - (IF Len(text) < 20 THEN Len(text) ELSE 20) + i]]
    IN  <<CompletionUri, 0, character, tail>>

StoredFor(key) == {i \in 1..Len(completionCache) : completionCache[i].key = key}

\* C13: a request whose key equals that of a result stored less than 30 seconds
\* earlier returns the stored result without parsing or running a generator; a
\* request 30 seconds or more after the entry was stored does not receive it:
\* the result is recomputed and stored anew under the key, in place of the entry.
C13_CacheTTL ==
    [][ ProvideCompletionItems =>
            IF \E i \in StoredFor(RequestKey) : now - completionCache[i].val.timestamp < 30000
            THEN /\ \E i \in StoredFor(RequestKey) :
                        completions' = completionCache[i].val.completions
                 /\ generators' = <<>>
                 /\ parser' = parser
                 /\ completionCache' = completionCache
            ELSE /\ Len(generators') >= 1
                 /\ parser' = parseDocument(parser, document)
                 /\ completions' = [i \in 1..Len(generators') |-> generators'[i].generator]
                 /\ Cardinality({i \in 1..Len(completionCache') :
                                    completionCache'[i].key = RequestKey}) = 1
                 /\ \A i \in 1..Len(completionCache') :
                        completionCache'[i].key = RequestKey =>
                            completionCache'[i].val =
                                [completions |-> completions', timestamp |-> now] ]_vars

\* A request one millisecond short of 30 seconds after a result was stored under
\* its key for another line gets that result, which is not what the line itself
\* would give.
C13_Witness ==
    /\ op = "cachedCompletions"
    /\ now = cacheTimeout - 1
    /\ \E i \in StoredFor(RequestKey) : completionCache[i].val.timestamp = 0
    /\ completions # <<PrimaryGenerator(TextBeforeCursor, lineText, character)>>
    /\ ~shouldProvideVariables(TextBeforeCursor)

-----------------------------------------------------------------------------
(* Completion candidates as items: the function generator, the variable      *)
(* overlay and the ranking, on documents that declare overloads              *)

\* The characters of the words that occur in the documents below.
Spell(word) ==
    CASE word = "function" -> <<"f", "u", "n", "c", "t", "i", "o", "n">>
      [] word = "method" -> <<"m", "e", "t", "h", "o", "d">>
      [] word = "pipeline" -> <<"p", "i", "p", "e", "l", "i", "n", "e">>
      [] word = "sq" -> <<"s", "q">>
      [] word = "p" -> <<"p">>
      [] word = "T" -> <<"T">>
      [] word = "a" -> <<"a">>
      [] word = "b" -> <<"b">>
      [] word = "x" -> <<"x">>
      [] word = "classic" -> <<"c", "l", "a", "s", "s", "i", "c">>
      [] word = "basic" -> <<"b", "a", "s", "i", "c">>
      [] word = "advanced" -> <<"a", "d", "v", "a", "n", "c", "e", "d">>
      [] word = "academic" -> <<"a", "c", "a", "d", "e", "m", "i", "c">>
      [] word = "practical" -> <<"p", "r", "a", "c", "t", "i", "c", "a", "l">>
      [] word = "simplified" -> <<"s", "i", "m", "p", "l", "i", "f", "i", "e", "d">>
      [] word = "enhanced" -> <<"e", "n", "h", "a", "n", "c", "e", "d">>
      [] OTHER -> <<>>

\* labels.join(' @')
JoinLabels(labels) ==
    ConcatAll([i \in 1..Len(labels) |->
        (IF i = 1 THEN <<>> ELSE <<" ", "@">>) \o Spell(labels[i])])

\* getFunctionDetail(func)
getFunctionDetail(func) ==
    Spell(func.type)
    \o (IF Truthy(func.version) THEN <<" ", "(", "v">> \o Spell(func.version) \o <<")">>
        ELSE <<>>)
    \o (IF Truthy(func.className) THEN <<" ", "i", "n", " ">> \o Spell(func.className)
        ELSE <<>>)
    \o (IF Len(func.labels) > 0 THEN <<" ", "@">> \o JoinLabels(func.labels) ELSE <<>>)

\* getFunctionSortText(func)
getFunctionSortText(func) ==
    (IF Truthy(func.documentation) \/ func.type = "pipeline" THEN <<"a">> ELSE <<"b">>)
    \o <<"_">> \o Spell(func.name)

CompletionItem(label, kind, detail, sortText) ==
    [label |-> label, kind |-> kind, detail |-> detail, sortText |-> sortText]

IsCallable(s) == s.type = "function" \/ s.type = "pipeline" \/ s.type = "method"

\* A generator that keeps the first declaration of each name only.
FirstOfEachName(symbols) ==
    LET callable == SelectSeq(symbols, IsCallable)
        firsts == SelectSeq([i \in 1..Len(callable) |-> i],
                            LAMBDA i : \A j \in 1..(i - 1) : callable[j].name # callable[i].name)
    IN  [k \in 1..Len(firsts) |->
            CompletionItem(Spell(callable[firsts[k]].name), "Function",
                           getFunctionDetail(callable[firsts[k]]),
                           getFunctionSortText(callable[firsts[k]]))]

\* provideFunctionCompletions: one item per function, pipeline and method symbol,
\* in the order of getAllSymbols().
provideFunctionCompletions(symbols) ==
    LET functions == SelectSeq(symbols, IsCallable)
    IN  [i \in 1..Len(functions) |->
            CompletionItem(Spell(functions[i].name), "Function",
                           getFunctionDetail(functions[i]),
                           getFunctionSortText(functions[i]))]

\* matchesInput(candidate, input)
matchesInput(candidate, input) ==
    \/ input = <<>>
    \/ startsWith(toLowerCase(candidate), toLowerCase(input))
    \/ includes(toLowerCase(candidate), toLowerCase(input))

\* The fixed detail texts of the variable provider's global items (CJK texts in
\* the source; no identifier occurs in them).
ConstDetail == <<"#", "c">>
MacroDetail == <<"#", "m">>

\* provideVariableCompletions on a document without local variables and
\* parameters: the const and macro declarations whose names match the typed word.
provideVariableCompletions(text, textBeforeCursor) ==
    LET typed == LastWord(textBeforeCursor)
        globals == SelectSeq([i \in 1..Len(text) |-> i],
                             LAMBDA i : /\ text[i].t \in {"const", "macro"}
                                        /\ matchesInput(Spell(text[i].name), typed))
    IN  [k \in 1..Len(globals) |->
            IF text[globals[k]].t = "const"
            THEN CompletionItem(Spell(text[globals[k]].name), "Constant", ConstDetail,
                                <<"b", "_">> \o Spell(text[globals[k]].name))
            ELSE CompletionItem(Spell(text[globals[k]].name), "Value", MacroDetail,
                                <<"b", "_">> \o Spell(text[globals[k]].name))]

MaxDecls == 3

\* Lines of a document with version overloads of `sq`, a method and a constant of
\* the same name, a pipeline and a label.
CallLines ==
    { <<FnTok("sq", "a")>>,
      <<FnTok("sq", "b")>>,
      <<FnTok("sq", Undefined)>>,
      <<ClassTok("T", Undefined), LBrace, FnTok("sq", Undefined), RBrace>>,
      <<PipelineTok("p")>>,
      <<ConstTok("sq", "1")>>,
      <<LabelTok("x")>> }

CallDocs == {Join(ls) : ls \in LineSeqs(CallLines, MaxDecls)}

\* Lines that end in a partial or a whole name at a call position.
CallTexts == { <<"s">>, <<"s", "q">>, <<"x", "(", "s">> }

\* What findCurrentFunction may give for a cursor somewhere in the document.
CurrentFunctions(text) ==
    {<<>>} \cup {Spell(text[i].name) : i \in {j \in 1..Len(text) : text[j].t = "fn"}}

InitCall ==
    /\ document \in CallDocs
    /\ lineText \in CallTexts
    /\ character = Len(lineText)
    /\ args \in [currentFunction : CurrentFunctions(document)]
    /\ parser = NewParser
    /\ op = "new"
    /\ result = <<>>
    /\ dropped = FALSE
    /\ now = 0
    /\ completionCache = NewMap
    /\ generators = <<>>
    /\ completions = <<>>
    /\ usageHistory = NewMap
    /\ contextHistory = <<>>
    /\ accepted = <<>>
    /\ IndexIdle

\* provideCompletionItems on a line classified as a function call, with nothing
\* cached for its key.
CompleteCall ==
    LET textBeforeCursor == SubSeq(lineText, 1, character)
        cacheKey == generateCacheKey(CompletionUri, 0, character, textBeforeCursor)
        calls == GeneratorCalls(textBeforeCursor, lineText, character)
        parsed == parseDocument(parser, document)
        primary == provideFunctionCompletions(getAllSymbols(parsed))
        overlay == IF shouldProvideVariables(textBeforeCursor)
                   THEN provideVariableCompletions(document, textBeforeCursor)
                   ELSE <<>>
        final == applyIntelligentRanking(primary \o overlay, textBeforeCursor,
                                         args.currentFunction, usageHistory, now)
    IN  /\ getCachedCompletions(completionCache, cacheKey, now).cached = <<>>
        /\ calls[1].generator = "function"
        /\ op' = "provideCompletionItems"
        /\ parser' = parsed
        /\ dropped' = (Len(getAllSymbols(parser')) < Len(getAllSymbols(parser)))
        /\ generators' = calls
        /\ result' = primary
        /\ completions' = final
        /\ completionCache' = cacheCompletions(completionCache, cacheKey, final, now)
        /\ UNCHANGED <<document, args, lineText, character, now,
                       usageHistory, contextHistory, accepted>>
        /\ UNCHANGED indexVars

NextCall == CompleteCall

SpecCall == InitCall /\ [][NextCall]_vars

\* The function, method and pipeline symbols declared under a name.
Callables(name) ==
    SelectSeq(getAllSymbols(parser), LAMBDA s : IsCallable(s) /\ s.name = name)

\* The returned candidates of kind Function labelled with a name.
FunctionCandidates(name) ==
    SelectSeq(completions, LAMBDA c : c.kind = "Function" /\ c.label = Spell(name))

Labelled(name) == SelectSeq(completions, LAMBDA c : c.label = Spell(name))

\* The document declares `sq` as free functions only, at least two of them, with
\* pairwise different versions.
VersionOverloads ==
    LET decls == SelectSeq(getAllSymbols(parser), LAMBDA s : s.name = "sq")
    IN  /\ Len(decls) >= 2
        /\ \A i \in 1..Len(decls) : decls[i].type = "function" /\ decls[i].labels = <<>>
        /\ \A i, j \in 1..Len(decls) : i # j => decls[i].version # decls[j].version

Called == op = "provideCompletionItems" /\ generators # <<>>

DetailFunction == Spell("function")
DetailFunctionA == Spell("function") \o <<" ", "(", "v", "a", ")">>
DetailFunctionB == Spell("function") \o <<" ", "(", "v", "b", ")">>

-----------------------------------------------------------------------------
(* Version completion inside a call `name(version: "`                        *)

\* version\s*:\s*["']?[^"']*$ matched from position i on.
VersionLiteralAt(text, i) ==
    /\ HasLit(text, i, VersionWord)
    /\ \E c \in (i + 7)..Len(text) :
           /\ AllIn(text, i + 7, c - 1, WS)
           /\ text[c] = ":"
           /\ \E k \in c..Len(text) :
                  /\ AllIn(text, c + 1, k, WS)
                  /\ \/ NoneIn(text, k + 1, Len(text), Quotes)
                     \/ /\ k + 1 <= Len(text)
                        /\ text[k + 1] \in Quotes
                        /\ NoneIn(text, k + 2, Len(text), Quotes)

\* /(\w+)\s*\([^)]*version\s*:\s*["']?[^"']*$/ with the word at text[s .. e].
CallOfVersionAt(text, s, e) ==
    /\ s <= e
    /\ AllIn(text, s, e, WordChars)
    /\ \E o \in (e + 1)..Len(text) :
           /\ AllIn(text, e + 1, o - 1, WS)
           /\ text[o] = "("
           /\ \E v \in (o + 1)..Len(text) :
                  NoneIn(text, o + 1, v - 1, {")"}) /\ VersionLiteralAt(text, v)

\* functionMatch[1] of the leftmost match, as a one-element sequence; <<>> when
\* the text does not match.
FunctionMatch(text) ==
    LET starts == {s \in 1..Len(text) : \E e \in s..Len(text) : CallOfVersionAt(text, s, e)}
        s0 == CHOOSE s \in starts : \A t \in starts : s <= t
        e0 == CHOOSE e \in s0..Len(text) : CallOfVersionAt(text, s0, e)
    IN  IF starts = {} THEN <<>> ELSE <<SubSeq(text, s0, e0)>>

DeclaredWords == {"sq", "p", "T"}

\* The symbol-table key that a word of the line spells; a key of no symbol when no
\* declared name is spelled so.
NameOf(word) ==
    IF \E n \in DeclaredWords : Spell(n) = word
    THEN CHOOSE n \in DeclaredWords : Spell(n) = word
    ELSE Undefined

\* new Set<string>() filled in the order of the symbols: each truthy version once,
\* at the place of its first occurrence.
VersionSet(functions) ==
    LET versioned == SelectSeq(functions, LAMBDA f : Truthy(f.version))
        firsts == SelectSeq([i \in 1..Len(versioned) |-> i],
                     LAMBDA i : \A j \in 1..(i - 1) : versioned[j].version # versioned[i].version)
    IN  [k \in 1..Len(firsts) |-> versioned[firsts[k]].version]

commonVersions == <<"basic", "advanced", "academic", "practical", "simplified", "enhanced">>

\* The detail texts of the version items: `<functionName> <fixed CJK text>` for a
\* version in use, a fixed CJK text for a catalog name.
ExistingVersionDetail(functionName) == functionName \o <<" ", "#", "v">>
CommonVersionDetail == <<"#", "k">>

\* provideVersionCompletions(textBeforeCursor, context)
provideVersionCompletions(p, textBeforeCursor) ==
    LET functionMatch == FunctionMatch(textBeforeCursor)
        functionName == functionMatch[1]
        functions == findAllSymbols(p, NameOf(functionName), Undefined, Undefined)
        versions == VersionSet(functions)
        common == SelectSeq(commonVersions, LAMBDA v : ~InSeq(v, versions))
    IN  IF functionMatch = <<>> THEN <<>>
        ELSE [i \in 1..Len(versions) |->
                 CompletionItem(Spell(versions[i]), "EnumMember",
                                ExistingVersionDetail(functionName), <<>>)]
             \o [i \in 1..Len(common) |->
                 CompletionItem(Spell(common[i]), "EnumMember", CommonVersionDetail,
                                <<"z", "_">> \o Spell(common[i]))]

\* Lines of a document with functions whose versions are in and out of the
\* catalog.
VersionLines ==
    { <<FnTok("sq", "classic")>>,
      <<FnTok("sq", "academic")>>,
      <<FnTok("sq", Undefined)>>,
      <<FnTok("p", "basic")>>,
      <<ClassTok("T", Undefined), LBrace, FnTok("sq", "enhanced"), RBrace>> }

MaxVersionDecls == 2

VersionDocs == {Join(ls) : ls \in LineSeqs(VersionLines, MaxVersionDecls)}

CallOpen == <<"(">> \o VersionWord \o <<":">>

\* Lines that end inside the version literal of a call.
VersionTexts ==
    { Spell("sq") \o CallOpen \o <<" ", "\"">>,
      Spell("sq") \o CallOpen \o <<"\"">>,
      Spell("sq") \o CallOpen \o <<" ", "\"", "c">>,
      Spell("p") \o CallOpen \o <<" ", "\"">>,
      <<"x">> \o CallOpen \o <<" ", "\"">> }

InitVersion ==
    /\ document \in VersionDocs
    /\ lineText \in VersionTexts
    /\ character = Len(lineText)
    /\ args \in [currentFunction : CurrentFunctions(document)]
    /\ parser = NewParser
    /\ op = "new"
    /\ result = <<>>
    /\ dropped = FALSE
    /\ now = 0
    /\ completionCache = NewMap
    /\ generators = <<>>
    /\ completions = <<>>
    /\ usageHistory = NewMap
    /\ contextHistory = <<>>
    /\ accepted = <<>>
    /\ IndexIdle

\* provideCompletionItems on a line classified as a version literal, with nothing
\* cached for its key.
CompleteVersion ==
    LET textBeforeCursor == SubSeq(lineText, 1, character)
        cacheKey == generateCacheKey(CompletionUri, 0, character, textBeforeCursor)
        calls == GeneratorCalls(textBeforeCursor, lineText, character)
        parsed == parseDocument(parser, document)
        primary == provideVersionCompletions(parsed, textBeforeCursor)
        overlay == IF shouldProvideVariables(textBeforeCursor)
                   THEN provideVariableCompletions(document, textBeforeCursor)
                   ELSE <<>>
        final == applyIntelligentRanking(primary \o overlay, textBeforeCursor,
                                         args.currentFunction, usageHistory, now)
    IN  /\ getCachedCompletions(completionCache, cacheKey, now).cached = <<>>
        /\ calls[1].generator = "version"
        /\ op' = "provideCompletionItems"
        /\ parser' = parsed
        /\ dropped' = (Len(getAllSymbols(parser')) < Len(getAllSymbols(parser)))
        /\ generators' = calls
        /\ result' = primary
        /\ completions' = final
        /\ completionCache' = cacheCompletions(completionCache, cacheKey, final, now)
        /\ UNCHANGED <<document, args, lineText, character, now,
                       usageHistory, contextHistory, accepted>>
        /\ UNCHANGED indexVars

NextVersion == CompleteVersion

SpecVersion == InitVersion /\ [][NextVersion]_vars

\* The function named in the call that the line ends in, and its declared
\* versions.
CalledName == NameOf(FunctionMatch(lineText)[1])

DeclaredVersions ==
    {s.version : s \in {t \in {getAllSymbols(parser)[i] : i \in 1..Len(getAllSymbols(parser))} :
                            t.name = CalledName /\ t.version # Undefined}}

ExistingAt == {i \in 1..Len(completions) :
                  completions[i].detail = ExistingVersionDetail(FunctionMatch(lineText)[1])}

CatalogAt == {i \in 1..Len(completions) : completions[i].detail = CommonVersionDetail}

CatalogNames == {commonVersions[i] : i \in 1..Len(commonVersions)}

\* The membership part of C15: one existing-version candidate per declared version
\* and one catalog candidate per catalog name that is not a declared version.
VersionMembership ==
    /\ ExistingAt \cup CatalogAt = 1..Len(completions)
    /\ {completions[i].label : i \in ExistingAt} = {Spell(v) : v \in DeclaredVersions}
    /\ Cardinality(ExistingAt) = Cardinality(DeclaredVersions)
    /\ {completions[i].label : i \in CatalogAt} = {Spell(v) : v \in CatalogNames \ DeclaredVersions}
    /\ Cardinality(CatalogAt) = Cardinality(CatalogNames \ DeclaredVersions)

\* C15: after a version-literal request inside a call of a function with declared
\* versions V, the existing-version candidates are exactly the distinct members of
\* V, the catalog candidates are exactly the catalog names not in V, and every
\* existing-version candidate comes before every catalog candidate in the result.
C15_ExistingBeforeCatalog ==
    Called =>
        /\ VersionMembership
        /\ \A i \in ExistingAt, j \in CatalogAt : i < j

\* What holds of the order: the generator pushes the existing versions first, and
\* the returned list is that list re-sorted by score and label alone.
C15_MembershipOnly ==
    Called =>
        /\ VersionMembership
        /\ \A k \in 1..Len(result) :
              (result[k].detail # CommonVersionDetail) <=>
                  k <= Cardinality(DeclaredVersions)
        /\ \A i, j \in 1..Len(completions) :
              i < j => ~LocaleLess(completions[j].sortText, completions[i].sortText)

\* In a document declaring sq(version "classic") the request `sq(version: "`
\* returned the catalog names `academic`, `advanced` and `basic` before `classic`.
C15_Witness ==
    /\ Called
    /\ DeclaredVersions = {"classic"}
    /\ lineText = Spell("sq") \o CallOpen \o <<" ", "\"">>
    /\ \E i \in ExistingAt, j \in CatalogAt : j < i /\ completions[j].label = Spell("basic")

-----------------------------------------------------------------------------
(* Go to definition: the line under the cursor, the scan of the workspace    *)
(* files and the shape of the answer                                         *)

\* Tokens of the line under the cursor. Identifiers are whole words; none of the
\* names used contains another, a keyword or `version`.
Ident(name) == Tok("id", name, "")               \* an identifier
KeywordTok(word) == Tok("kw", word, "")          \* using, macro, const, fn, pipeline, class, extends
DotTok == Tok(".", "", "")
LParen == Tok("(", "", "")
RParen == Tok(")", "", "")
Space == Tok(" ", "", "")
VersionArg(v) == Tok("version", "", v)          \* `version: "v"`
VersionArgSingle(v) == Tok("version'", "", v)   \* `version: 'v'`

\* document.getWordRangeAtPosition(position): the identifier token at the cursor.
WordRange(line, at) == IF line[at].t \in {"id", "kw"} THEN <<at>> ELSE <<>>

\* beforeWord.trim() ends with a declaration keyword or `extends`.
OnDefinitionLine(line, at) ==
    LET solid == {i \in 1..(at - 1) : line[i] # Space}
    IN  solid # {} /\ line[Max(solid)].t = "kw"

\* lineText.charAt(wordEndIndex) === '('
IsFunctionCall(line, at) == at < Len(line) /\ line[at + 1] = LParen

\* beforeWord.match(/(\w+)\.$/)
DotMatch(line, at) ==
    IF at > 2 /\ line[at - 1] = DotTok /\ line[at - 2].t \in {"id", "kw"}
    THEN line[at - 2].name
    ELSE Undefined

\* lineText.match(new RegExp(`${word}\\s*\\([^)]*version\\s*:\\s*"([^"]+)"`)):
\* the leftmost occurrence of the word that is followed by blanks, `(` and, before
\* any `)`, a double-quoted version literal; of several such literals the last.
VersionMatch(line, word) ==
    LET Opens(p) == {o \in (p + 1)..Len(line) :
                        /\ line[o] = LParen
                        /\ \A k \in (p + 1)..(o - 1) : line[k] = Space}
        Literals(p) == {q \in 1..Len(line) :
                           /\ line[q].t = "version"
                           /\ \E o \in Opens(p) :
                                  o < q /\ \A k \in (o + 1)..(q - 1) : line[k] # RParen}
        starts == {p \in 1..Len(line) :
                      line[p].t = "id" /\ line[p].name = word /\ Literals(p) # {}}
    IN  IF starts = {} THEN Undefined
        ELSE line[Max(Literals(CHOOSE p \in starts : \A r \in starts : p <= r))].arg

Location(uri, range) == [uri |-> uri, range |-> range]

IsCallableKind(s) == s.type = "function" \/ s.type = "pipeline" \/ s.type = "method"

IsTypeOrValueKind(s) ==
    s.type = "class" \/ s.type = "type_alias" \/ s.type = "macro" \/ s.type = "constant"

\* A lookup that constrains neither the owner nor the version.
DefinitionsByNameOnly(table, word, isFunctionCall, version, className) ==
    IF isFunctionCall
    THEN SelectSeq(findAllSymbols(table, word, Undefined, Undefined), IsCallableKind)
    ELSE SelectSeq(findAllSymbols(table, word, Undefined, Undefined), IsTypeOrValueKind)

\* The symbols one file contributes.
DefinitionsIn(table, word, isFunctionCall, version, className) ==
    IF isFunctionCall
    THEN SelectSeq(findAllSymbols(table, word, version, className), IsCallableKind)
    ELSE SelectSeq(findAllSymbols(table, word, Undefined, Undefined), IsTypeOrValueKind)

\* A resolver that answers with the first of several locations.
PickFirst(allDefinitions) ==
    IF Len(allDefinitions) = 0 THEN [shape |-> "undefined", locations |-> <<>>]
    ELSE [shape |-> "Location", locations |-> <<allDefinitions[1]>>]

\* What provideDefinition returns for the locations it gathered: undefined, one
\* Location, or the array.
DefinitionResult(allDefinitions) ==
    IF Len(allDefinitions) = 0 THEN [shape |-> "undefined", locations |-> <<>>]
    ELSE IF Len(allDefinitions) = 1
    THEN [shape |-> "Location", locations |-> <<allDefinitions[1]>>]
    ELSE [shape |-> "Location[]", locations |-> allDefinitions]

\* The result of findFiles('**/*.ldl', ...), in the order it is iterated.
ldlFiles == <<"a.ldl", "b.ldl">>

\* Workspace files: free functions, methods of T and of U, a constant and a class
\* that share one name.
DefinitionContents ==
    { Join(<< <<FnTok("m", Undefined)>> >>),
      Join(<< <<FnTok("m", "a")>>, <<FnTok("m", "b")>> >>),
      Join(<< <<ClassTok("T", Undefined), LBrace, FnTok("m", "a"), RBrace>> >>),
      Join(<< <<ClassTok("T", Undefined), LBrace, FnTok("m", "b"), RBrace>>,
              <<FnTok("m", "a")>> >>),
      Join(<< <<ClassTok("U", Undefined), LBrace, FnTok("m", "a"), RBrace>>,
              <<PipelineTok("m")>> >>),
      Join(<< <<ConstTok("T", "1")>>, <<ClassTok("T", Undefined), LBrace, RBrace>> >>) }

\* Lines under the cursor.
DefinitionLines ==
    { <<Ident("m"), LParen, RParen>>,
      <<Ident("m"), LParen, VersionArg("a"), RParen>>,
      <<Ident("T"), DotTok, Ident("m"), LParen, RParen>>,
      <<Ident("T"), DotTok, Ident("m"), LParen, VersionArg("a"), RParen>>,
      <<Ident("T"), DotTok, Ident("m"), LParen, VersionArgSingle("a"), RParen>>,
      <<Ident("m"), LParen, VersionArg("a"), RParen, Space, Ident("m"), LParen,
        VersionArg("b"), RParen>>,
      <<Ident("m"), LParen, Ident("T"), LParen, RParen, VersionArg("b"), RParen>>,
      <<KeywordTok("fn"), Space, Ident("m"), LParen, RParen>>,
      <<KeywordTok("class"), Space, Ident("T"), Space, KeywordTok("extends"), Space,
        Ident("T")>>,
      <<Ident("T"), Space, Ident("m")>> }

NoRequest == [word |-> Undefined, isFunctionCall |-> FALSE, version |-> Undefined,
              className |-> Undefined, scanned |-> 0]

InitDefinition ==
    /\ files \in [Uris -> [content : DefinitionContents, mtime : {0}]]
    /\ lineText \in DefinitionLines
    /\ character \in 1..Len(lineText)
    /\ parsedDocuments = NewMap
    /\ pending = {}
    /\ created = 0
    /\ returned = <<>>
    /\ document = <<>>
    /\ parser = NewParser
    /\ op = "new"
    /\ args = NoRequest
    /\ result = <<>>
    /\ dropped = FALSE
    /\ now = 0
    /\ completionCache = NewMap
    /\ generators = <<>>
    /\ completions = <<>>
    /\ usageHistory = NewMap
    /\ contextHistory = <<>>
    /\ accepted = <<>>

\* The cache of parsed documents after getParserForDocument ran for the first n
\* files, one after the other.
RECURSIVE CacheAfter(_, _, _)
CacheAfter(cache, fs, n) ==
    IF n = 0 THEN cache
    ELSE LET before == CacheAfter(cache, fs, n - 1)
             uri == ldlFiles[n]
         IN  IF CacheValid(before, uri, fs[uri].mtime) THEN before
             ELSE MapSet(before, uri,
                         [parser |-> FreshParser(Len(before) + 1, fs[uri].content),
                          lastModified |-> fs[uri].mtime])

\* provideDefinition(document, position, token), with cancellation requested
\* before the file numbered scanned + 1 (never, when scanned is the number of
\* files).
ProvideDefinition ==
    \E scanned \in 0..Len(ldlFiles) :
        LET at == character
            word == lineText[at].name
            isFunctionCall == IsFunctionCall(lineText, at)
            version == VersionMatch(lineText, word)
            className == DotMatch(lineText, at)
            cache == CacheAfter(parsedDocuments, files, scanned)
            found == [n \in 1..scanned |->
                         LET symbols == DefinitionsIn(MapGet(cache, ldlFiles[n]).parser.table,
                                                      word, isFunctionCall, version, className)
                         IN  [i \in 1..Len(symbols) |->
                                 Location(ldlFiles[n], symbols[i].position)]]
            allDefinitions == ConcatAll(found)
        IN  /\ op' = "provideDefinition"
            /\ IF WordRange(lineText, at) = <<>> \/ OnDefinitionLine(lineText, at)
               THEN /\ args' = NoRequest
                    /\ result' = <<DefinitionResult(<<>>)>>
                    /\ UNCHANGED <<parsedDocuments, created>>
               ELSE /\ args' = [word |-> word, isFunctionCall |-> isFunctionCall,
                                version |-> version, className |-> className,
                                scanned |-> scanned]
                    /\ result' = <<DefinitionResult(allDefinitions)>>
                    /\ parsedDocuments' = cache
                    /\ created' = Len(cache)
            /\ UNCHANGED <<files, pending, returned, document, parser, dropped>>
            /\ UNCHANGED completionVars

NextDefinition == ProvideDefinition

SpecDefinition == InitDefinition /\ [][NextDefinition]_vars

\* The request was answered.
Answered == op = "provideDefinition"

\* The parser table that the scan used for a file.
TableOf(uri) == MapGet(parsedDocuments, uri).parser.table

\* The files scanned before the request returned or was cancelled.
ScannedFiles == SubSeq(ldlFiles, 1, args.scanned)

\* The matching declarations of the scanned files, file by file.
Gathered ==
    ConcatAll([n \in 1..Len(ScannedFiles) |->
        LET symbols == DefinitionsIn(TableOf(ScannedFiles[n]), args.word, args.isFunctionCall,
                                     args.version, args.className)
        IN  [i \in 1..Len(symbols) |-> Location(ScannedFiles[n], symbols[i].position)]])

\* C16: with no matching declaration in the files scanned the answer is undefined,
\* with exactly one it is that single location, and with more than one it is the
\* whole sequence of matching locations, none picked or dropped.
C16_ResultShape ==
    Answered =>
        /\ Len(Gathered) = 0 => result[1] = [shape |-> "undefined", locations |-> <<>>]
        /\ Len(Gathered) = 1 => result[1] = [shape |-> "Location", locations |-> Gathered]
        /\ Len(Gathered) > 1 => result[1] = [shape |-> "Location[]", locations |-> Gathered]

\* A request was answered with locations from both workspace files.
C16_Witness ==
    /\ Answered
    /\ result[1].shape = "Location[]"
    /\ Len(result[1].locations) > 1
    /\ \A uri \in Uris : \E k \in 1..Len(result[1].locations) : result[1].locations[k].uri = uri

\* The symbols that a returned location may stand for: those of the file's table
\* at the location's position.
SymbolsAt(loc) ==
    LET all == getAllSymbols(TableOf(loc.uri))
    IN  {all[i] : i \in {j \in 1..Len(all) : all[j].position = loc.range}}

\* The identifier under the cursor is a call preceded by `owner.`.
OwnerOfCall ==
    IF IsFunctionCall(lineText, character) /\ character > 2
       /\ lineText[character - 1] = DotTok /\ lineText[character - 2].t = "id"
    THEN lineText[character - 2].name
    ELSE Undefined

\* Parentheses opened and not yet closed from the call's `(` up to position k.
Depth(k) ==
    Cardinality({i \in (character + 1)..k : lineText[i] = LParen})
    - Cardinality({i \in (character + 1)..k : lineText[i] = RParen})

\* The positions of the version literals among the arguments of the call under
\* the cursor.
CallLiterals ==
    {q \in (character + 2)..Len(lineText) :
        /\ lineText[q].t \in {"version", "version'"}
        /\ IsFunctionCall(lineText, character)
        /\ \A k \in (character + 1)..q : Depth(k) >= 1
        /\ Depth(q) = 1}

\* Every returned location is a declaration tagged with version v.
AllTagged(v) ==
    \A k \in 1..Len(result[1].locations) :
        \E s \in SymbolsAt(result[1].locations[k]) : s.version = v

\* Every returned location is a method owned by owner.
AllOwnedBy(owner) ==
    \A k \in 1..Len(result[1].locations) :
        \E s \in SymbolsAt(result[1].locations[k]) : s.type = "method" /\ s.className = owner

DeclaresMethodOf(uri, owner) ==
    \E i \in 1..Len(MapGet(TableOf(uri).symbols, args.word)) :
        MapGet(TableOf(uri).symbols, args.word)[i].className = owner

\* The call under the cursor is the first occurrence of its name on the line, and
\* its one version literal is double-quoted with no `)` between the call's `(` and
\* the literal.
PlainVersionCall ==
    /\ \A p \in 1..(character - 1) : lineText[p] # lineText[character]
    /\ Cardinality(CallLiterals) = 1
    /\ \A q \in CallLiterals :
          /\ lineText[q].t = "version"
          /\ \A k \in (character + 1)..q : lineText[k] # RParen

-----------------------------------------------------------------------------
(* Find references: the four patterns on the characters of a line, the       *)
(* comment and string tests, and the list of positions                       *)

ExtendsWord == <<"e", "x", "t", "e", "n", "d", "s">>

\* The elements of a set of numbers in ascending order.
Ascending(S) == [k \in 1..Cardinality(S) |-> CHOOSE x \in S : Cardinality({y \in S : y < x}) = k - 1]

\* \b after the word that ends at text[j].
WordBoundaryAfter(text, j) == j >= Len(text) \/ text[j + 1] \notin WordChars

\* The first match of /\bname\b/ in a string, as a 0-based index; -1 when none.
SymbolIndex(str, name) ==
    LET at == {i \in 1..Len(str) :
                  /\ HasLit(str, i, name)
                  /\ WordBoundaryBefore(str, i)
                  /\ WordBoundaryAfter(str, i + Len(name) - 1)}
    IN  IF at = {} THEN -1 ELSE (CHOOSE i \in at : \A j \in at : i <= j) - 1

\* The matches of one pattern in a line, each as [index, text]: match.index
\* (0-based) and match[0].
\* `\bname\s*\(`
CallMatches(line, name) ==
    {[index |-> i - 1, text |-> SubSeq(line, i, o)] :
        <<i, o>> \in {<<i, o>> \in (1..Len(line)) \X (1..Len(line)) :
            /\ HasLit(line, i, name)
            /\ WordBoundaryBefore(line, i)
            /\ o >= i + Len(name)
            /\ AllIn(line, i + Len(name), o - 1, WS)
            /\ line[o] = "("}}

\* `\bname\b(?!\s*[:(=])`
UseMatches(line, name) ==
    {[index |-> i - 1, text |-> name] :
        i \in {i \in 1..Len(line) :
            /\ HasLit(line, i, name)
            /\ WordBoundaryBefore(line, i)
            /\ WordBoundaryAfter(line, i + Len(name) - 1)
            /\ ~\E o \in (i + Len(name))..Len(line) :
                   /\ AllIn(line, i + Len(name), o - 1, WS)
                   /\ line[o] \in {":", "(", "="}}}

\* `(?::|extends)\s+name\b`
TypeMatches(line, name) ==
    {[index |-> s - 1, text |-> SubSeq(line, s, i + Len(name) - 1)] :
        <<s, i>> \in {<<s, i>> \in (1..Len(line)) \X (1..Len(line)) :
            \E lead \in {<<":">>, ExtendsWord} :
                /\ HasLit(line, s, lead)
                /\ i > s + Len(lead)
                /\ AllIn(line, s + Len(lead), i - 1, WS)
                /\ HasLit(line, i, name)
                /\ WordBoundaryAfter(line, i + Len(name) - 1)}}

\* `\.\s*name\b`
MemberMatches(line, name) ==
    {[index |-> s - 1, text |-> SubSeq(line, s, i + Len(name) - 1)] :
        <<s, i>> \in {<<s, i>> \in (1..Len(line)) \X (1..Len(line)) :
            /\ line[s] = "."
            /\ i > s
            /\ AllIn(line, s + 1, i - 1, WS)
            /\ HasLit(line, i, name)
            /\ WordBoundaryAfter(line, i + Len(name) - 1)}}

\* The matches of a pattern in the order pattern.exec finds them.
InOrder(matches) ==
    LET idx == Ascending({mt.index : mt \in matches})
    IN  [k \in 1..Len(idx) |-> CHOOSE mt \in matches : mt.index = idx[k]]

\* line.indexOf(str); -1 when absent.
indexOfString(line, str) ==
    LET at == {i \in 1..Len(line) : HasLit(line, i, str)}
    IN  IF at = {} THEN -1 ELSE (CHOOSE i \in at : \A j \in at : i <= j) - 1

\* isInComment(line, position)
isInComment(line, position) ==
    \/ indexOfString(line, <<"/", "/">>) # -1 /\ position >= indexOfString(line, <<"/", "/">>)
    \/ indexOfString(line, <<"/", "/", "/">>) # -1
          /\ position >= indexOfString(line, <<"/", "/", "/">>)

\* The two flags of isInString after the first n characters.
RECURSIVE QuoteFlags(_, _)
QuoteFlags(line, n) ==
    IF n = 0 THEN [inSingleQuote |-> FALSE, inDoubleQuote |-> FALSE]
    ELSE LET f == QuoteFlags(line, n - 1)
         IN  IF line[n] = "\"" /\ ~f.inSingleQuote
             THEN [f EXCEPT !.inDoubleQuote = ~f.inDoubleQuote]
             ELSE IF line[n] = "'" /\ ~f.inDoubleQuote
             THEN [f EXCEPT !.inSingleQuote = ~f.inSingleQuote]
             ELSE f

\* A string test that counts double quotes only.
DoubleQuotesOnly(line, position) ==
    Cardinality({i \in 1..position : i <= Len(line) /\ line[i] = "\""}) % 2 = 1

\* isInString(line, position)
isInString(line, position) ==
    LET n == IF position < Len(line) THEN position ELSE Len(line)
        f == QuoteFlags(line, n)
    IN  f.inDoubleQuote \/ f.inSingleQuote

Position(lineIndex, column) == [line |-> lineIndex, character |-> column]

\* The positions that the matches of one line give, pattern by pattern, before
\* the list is searched for an equal position.
LinePositions(line, lineIndex, symbolName) ==
    LET found == InOrder(CallMatches(line, symbolName)) \o InOrder(UseMatches(line, symbolName))
                 \o InOrder(TypeMatches(line, symbolName))
                 \o InOrder(MemberMatches(line, symbolName))
        kept == SelectSeq(found, LAMBDA mt :
                    /\ ~isInComment(line, mt.index)
                    /\ ~isInString(line, mt.index)
                    /\ SymbolIndex(mt.text, symbolName) # -1)
    IN  [k \in 1..Len(kept) |->
            Position(lineIndex, kept[k].index + SymbolIndex(kept[k].text, symbolName))]

\* A list that keeps every position pushed.
KeepDuplicates(positions) == positions

\* references.push(position) unless references.some(ref => same line and
\* character)
PushDistinct(positions) ==
    LET firsts == SelectSeq([i \in 1..Len(positions) |-> i],
                            LAMBDA i : \A j \in 1..(i - 1) : positions[j] # positions[i])
    IN  [k \in 1..Len(firsts) |-> positions[firsts[k]]]

\* findReferencesInDocument(document, symbolName, parser) on the lines of the
\* document's text.
findReferencesInDocument(lines, symbolName) ==
    PushDistinct(ConcatAll([l \in 1..Len(lines) |-> LinePositions(lines[l], l - 1, symbolName)]))

MaxRefAtoms == 4

ClassExtendsLine ==
    <<"c", "l", "a", "s", "s", " ", "B", " ">> \o ExtendsWord \o <<" ", "A", " ", "{">>

StringCallLine ==
    <<"l", "e", "t", " ", "s", " ", "=", " ", "\"", "c", "a", "l", "l", " ", "A", "(", ")",
      " ", "h", "e", "r", "e", "\"">>

RefAtoms ==
    { <<"A">>, <<"B">>, <<"(">>, <<" ">>, <<"\"">>, <<"'">>, <<"/", "/">>, <<".">>,
      ExtendsWord \o <<" ">> }

\* Lines searched for the name `A`.
RefLines ==
    {ConcatAll(atoms) : atoms \in LineSeqs(RefAtoms, MaxRefAtoms)}
    \cup {ClassExtendsLine, StringCallLine, <<":", " ", "A">>, <<"/", "/", "/", " ", "A">>}

InitReferenceLines ==
    /\ lineText \in RefLines
    /\ args = [symbolName |-> <<"A">>]
    /\ character = 0
    /\ op = "new"
    /\ result = <<>>
    /\ document = <<>>
    /\ parser = NewParser
    /\ dropped = FALSE
    /\ now = 0
    /\ completionCache = NewMap
    /\ generators = <<>>
    /\ completions = <<>>
    /\ usageHistory = NewMap
    /\ contextHistory = <<>>
    /\ accepted = <<>>
    /\ IndexIdle

\* findReferencesInDocument on a document of one line.
FindReferencesInDocument ==
    /\ op' = "findReferencesInDocument"
    /\ result' = findReferencesInDocument(<<lineText>>, args.symbolName)
    /\ UNCHANGED <<document, parser, args, dropped>>
    /\ UNCHANGED <<indexVars, completionVars>>

NextReferenceLines == FindReferencesInDocument

SpecReferenceLines == InitReferenceLines /\ [][NextReferenceLines]_vars

\* The line was searched.
Searched == op = "findReferencesInDocument"

\* A `//` (and so any `///`) starts at or before a 0-based offset of the line.
CommentStartsBy(line, offset) ==
    \E c \in 1..(offset + 1) : c < Len(line) /\ line[c] = "/" /\ line[c + 1] = "/"

\* The kind of quote open after the first n characters: a quote opens a string
\* when none is open and closes the string of its own kind only.
RECURSIVE OpenQuote(_, _)
OpenQuote(line, n) ==
    IF n = 0 THEN "none"
    ELSE LET before == OpenQuote(line, n - 1)
         IN  CASE before = "none" /\ line[n] \in Quotes -> line[n]
               [] before # "none" /\ line[n] = before -> "none"
               [] OTHER -> before

\* C18: no reported position lies at or after the start of a line comment or of a
\* doc-comment, and none lies in a string that is open at its offset, where single
\* and double quotes are tracked independently; the line
\* `let s = "call A() here"` gives no position for A.
C18_ReferenceExclusion ==
    Searched =>
        /\ \A k \in 1..Len(result) :
              /\ ~CommentStartsBy(lineText, result[k].character)
              /\ OpenQuote(lineText, result[k].character) = "none"
        /\ lineText = StringCallLine => result = <<>>

\* The search of `"'"A` reported the A after the closed string, although a single
\* quote precedes it; and this is a state after a search.
C18_Witness ==
    /\ Searched
    /\ lineText = <<"\"", "'", "\"", "A">>
    /\ result = <<Position(0, 3)>>

\* The search of `let s = "call A() here"` reported nothing.
C18_StringCallSearched == Searched /\ lineText = StringCallLine /\ result = <<>>

\* The 0-based offsets of the line at which some pattern reports the name.
ReportedBy(pattern) ==
    LET matches == CASE pattern = 1 -> CallMatches(lineText, args.symbolName)
                     [] pattern = 2 -> UseMatches(lineText, args.symbolName)
                     [] pattern = 3 -> TypeMatches(lineText, args.symbolName)
                     [] OTHER -> MemberMatches(lineText, args.symbolName)
    IN  {mt.index + SymbolIndex(mt.text, args.symbolName) :
            mt \in {x \in matches : ~isInComment(lineText, x.index) /\ ~isInString(lineText, x.index)}}

\* C19: the positions reported for a document are pairwise distinct, an
\* occurrence that several of the four patterns match being reported once; the
\* search for A in `class B extends A {` reports the offset of A alone.
C19_DistinctPositions ==
    Searched =>
        /\ \A j, k \in 1..Len(result) : j # k => result[j] # result[k]
        /\ {result[k].character : k \in 1..Len(result)} = UNION {ReportedBy(p) : p \in 1..4}
        /\ lineText = ClassExtendsLine => result = <<Position(0, 16)>>

\* The search of `class B extends A {` reported one position, for an occurrence
\* that the use pattern and the type pattern both match.
C19_Witness ==
    /\ Searched
    /\ lineText = ClassExtendsLine
    /\ Len(result) = 1
    /\ 16 \in ReportedBy(2) \cap ReportedBy(3)

-----------------------------------------------------------------------------
(* Find references over the workspace files, with and without declarations   *)

FnWord == <<"f", "n">>
ClassWord == <<"c", "l", "a", "s", "s">>
PipelineWord == <<"p", "i", "p", "e", "l", "i", "n", "e">>

\* The characters of a token of a workspace file.
TokenText(tok) ==
    CASE tok.t = "fn" -> FnWord \o <<" ">> \o Spell(tok.name) \o <<"(", ")">>
      [] tok.t = "class" -> ClassWord \o <<" ">> \o Spell(tok.name)
      [] tok.t = "pipeline" -> PipelineWord \o <<" ">> \o Spell(tok.name)
      [] tok.t = "id" -> Spell(tok.name)
      [] OTHER -> <<tok.t>>

\* The characters of a line of tokens.
LineText(line) == ConcatAll([i \in 1..Len(line) |-> TokenText(line[i])])

\* document.getText().split('\n'), in characters.
TextLines(text) == [l \in 1..Len(SplitLines(text)) |-> LineText(SplitLines(text)[l])]

\* A position in tokens of a line as a position in characters.
CharPosition(text, position) ==
    Position(position.line,
             Len(LineText(SubSeq(SplitLines(text)[position.line + 1], 1, position.character))))

\* Workspace files with declarations and uses of `sq`, `T` and `p`.
ReferenceContents ==
    { Join(<< <<FnTok("sq", Undefined)>> >>),
      Join(<< <<FnTok("sq", Undefined)>>, <<Ident("sq"), LParen, RParen>> >>),
      Join(<< <<ClassTok("T", Undefined), Space, LBrace>>, <<RBrace>>,
              <<Ident("T"), DotTok, Ident("sq"), LParen, RParen>> >>),
      Join(<< <<PipelineTok("p")>>, <<Ident("p"), Space, Ident("sq"), LParen, RParen>> >>),
      Join(<< <<Ident("p")>> >>) }

ReferenceWords == {"sq", "T", "p"}

InitReferences ==
    /\ files \in [Uris -> [content : ReferenceContents, mtime : {0}]]
    /\ args \in [word : ReferenceWords, includeDeclaration : BOOLEAN, current : Uris,
                 scanned : {0}]
    /\ parsedDocuments = NewMap
    /\ pending = {}
    /\ created = 0
    /\ returned = <<>>
    /\ document = <<>>
    /\ parser = NewParser
    /\ op = "new"
    /\ result = <<>>
    /\ dropped = FALSE
    /\ CompletionIdle

\* getParserForDocument(document) for the document under the cursor.
CacheWith(cache, fs, uri) ==
    IF CacheValid(cache, uri, fs[uri].mtime) THEN cache
    ELSE MapSet(cache, uri, [parser |-> FreshParser(Len(cache) + 1, fs[uri].content),
                             lastModified |-> fs[uri].mtime])

\* The locations one file adds: its declarations of the word when asked for, then
\* its references.
ReferencesIn(uri, content, table, word, includeDeclaration) ==
    LET definitions == findAllSymbols(table, word, Undefined, Undefined)
        references == findReferencesInDocument(TextLines(content), Spell(word))
    IN  (IF includeDeclaration
         THEN [i \in 1..Len(definitions) |->
                  Location(uri, CharPosition(content, definitions[i].position))]
         ELSE <<>>)
        \o [i \in 1..Len(references) |-> Location(uri, references[i])]

\* provideReferences(document, position, context, token), with cancellation
\* requested before the file numbered scanned + 1.
ProvideReferences ==
    \E scanned \in 0..Len(ldlFiles) :
        LET first == CacheWith(parsedDocuments, files, args.current)
            cache == CacheAfter(first, files, scanned)
            found == [n \in 1..scanned |->
                         ReferencesIn(ldlFiles[n], files[ldlFiles[n]].content,
                                      MapGet(cache, ldlFiles[n]).parser.table,
                                      args.word, args.includeDeclaration)]
        IN  /\ op' = "provideReferences"
            /\ args' = [args EXCEPT !.scanned = scanned]
            /\ result' = ConcatAll(found)
            /\ parsedDocuments' = cache
            /\ created' = Len(cache)
            /\ UNCHANGED <<files, pending, returned, document, parser, dropped>>
            /\ UNCHANGED completionVars

NextReferences == ProvideReferences

SpecReferences == InitReferences /\ [][NextReferences]_vars

\* The offsets in a file of the tokens that declare the word.
DeclarationOffsets(uri) ==
    {i \in 0..(Len(files[uri].content) - 1) :
        /\ files[uri].content[i + 1].t \in {"fn", "pipeline", "class"}
        /\ files[uri].content[i + 1].name = args.word}

\* The location of a declaration: where its keyword starts.
DeclarationLocation(uri, i) ==
    Location(uri, CharPosition(files[uri].content, PositionAt(files[uri].content, i)))

\* The location of the name in the declaration's own line.
NameTokenLocation(uri, i) ==
    LET keyword == CASE files[uri].content[i + 1].t = "fn" -> FnWord
                     [] files[uri].content[i + 1].t = "class" -> ClassWord
                     [] OTHER -> PipelineWord
        at == DeclarationLocation(uri, i).range
    IN  Location(uri, Position(at.line, at.character + Len(keyword) + 1))

Returned == {result[k] : k \in 1..Len(result)}

\* C20: when declarations are not asked for, no returned location is the position
\* of a declaration of the word or the name in the declaration's own line; when
\* they are asked for, the position of every declaration of the word in every
\* scanned file is returned.
C20_DeclarationsOptIn ==
    op = "provideReferences" =>
        /\ ~args.includeDeclaration =>
              \A uri \in Uris : \A i \in DeclarationOffsets(uri) :
                  /\ DeclarationLocation(uri, i) \notin Returned
                  /\ NameTokenLocation(uri, i) \notin Returned
        /\ args.includeDeclaration =>
              \A n \in 1..args.scanned : \A i \in DeclarationOffsets(ldlFiles[n]) :
                  DeclarationLocation(ldlFiles[n], i) \in Returned

\* What holds: the declaration positions are returned exactly on request, and the
\* name in a declaration's own line is returned either way.
C20_PositionsOptInNamesAlways ==
    op = "provideReferences" =>
        \A n \in 1..Len(ldlFiles) : \A i \in DeclarationOffsets(ldlFiles[n]) :
            /\ DeclarationLocation(ldlFiles[n], i) \in Returned
                  <=> (args.includeDeclaration /\ n <= args.scanned)
            /\ NameTokenLocation(ldlFiles[n], i) \in Returned <=> n <= args.scanned

\* A search for `sq` without declarations returned the name of `fn sq()` in a file
\* that only declares it.
C20_Witness ==
    /\ op = "provideReferences"
    /\ ~args.includeDeclaration
    /\ args.word = "sq"
    /\ files["a.ldl"].content = Join(<< <<FnTok("sq", Undefined)>> >>)
    /\ Location("a.ldl", Position(0, 3)) \in Returned
-----------------------------------------------------------------------------
(* The multi-file scans of the three workspace-wide providers, file by file, *)
(* with files that cannot be read and a cancellation token                   *)

WhiteSpace == {" ", "\t"}

\* String.prototype.trim
trim(text) ==
    LET solid == {i \in 1..Len(text) : text[i] \notin WhiteSpace}
    IN  IF solid = {} THEN <<>>
        ELSE SubSeq(text, CHOOSE i \in solid : \A j \in solid : i <= j,
                    CHOOSE i \in solid : \A j \in solid : i >= j)

SpelledWords == {"function", "method", "pipeline", "sq", "p", "T", "a", "b", "x",
                 "classic", "basic", "advanced", "academic", "practical",
                 "simplified", "enhanced"}

\* The label or documentation text that is spelled with these characters.
Unspell(chars) ==
    IF \E w \in SpelledWords : Spell(w) = chars
    THEN CHOOSE w \in SpelledWords : Spell(w) = chars
    ELSE ""

\* symbol.type as characters
TypeText(type) ==
    CASE type = "class" -> ClassWord
      [] type = "type_alias" -> <<"t", "y", "p", "e", "_", "a", "l", "i", "a", "s">>
      [] type = "macro" -> <<"m", "a", "c", "r", "o">>
      [] type = "constant" -> <<"c", "o", "n", "s", "t", "a", "n", "t">>
      [] OTHER -> Spell(type)

\* query.match(/^@?label:\s*(.+)$/i): the captured group, trimmed
LabelQuery(query) ==
    LET q == IF startsWith(query, <<"@">>) THEN Tail(query) ELSE query
        prefix == <<"l", "a", "b", "e", "l", ":">>
    IN  IF startsWith(toLowerCase(q), prefix) /\ Len(q) > Len(prefix)
        THEN <<trim(SubSeq(q, Len(prefix) + 1, Len(q)))>>
        ELSE <<>>

\* The captured group of /^\s*(.+)$/ on a text that is not empty: the white space
\* goes to \s* as long as one character is left for the group.
AfterSpaces(rest) ==
    LET solid == {i \in 1..Len(rest) : rest[i] \notin WhiteSpace}
    IN  IF solid = {} THEN SubSeq(rest, Len(rest), Len(rest))
        ELSE SubSeq(rest, CHOOSE i \in solid : \A j \in solid : i <= j, Len(rest))

\* query.match(/^t(?:ype)?:\s*(.+)$/i): the captured group, in lower case
TypeQuery(query) ==
    LET long == <<"t", "y", "p", "e", ":">>
        short == <<"t", ":">>
        q == toLowerCase(query)
    IN  IF startsWith(q, long) /\ Len(q) > Len(long)
        THEN <<AfterSpaces(SubSeq(q, Len(long) + 1, Len(q)))>>
        ELSE IF startsWith(q, short) /\ Len(q) > Len(short)
        THEN <<AfterSpaces(SubSeq(q, Len(short) + 1, Len(q)))>>
        ELSE <<>>

\* The symbols a plain query adds for one symbol of the table: one on a name
\* match (continue); else one on the first matching label (break) and one more
\* when the documentation matches.
PlainMatches(symbol, queryLower) ==
    IF includes(toLowerCase(Spell(symbol.name)), queryLower) THEN <<symbol>>
    ELSE (IF \E i \in 1..Len(symbol.labels) :
                 includes(toLowerCase(Spell(symbol.labels[i])), queryLower)
          THEN <<symbol>> ELSE <<>>)
         \o (IF Truthy(symbol.documentation)
                /\ includes(toLowerCase(Spell(symbol.documentation)), queryLower)
             THEN <<symbol>> ELSE <<>>)

\* filterSymbols(parser, query)
filterSymbols(p, query) ==
    LET allSymbols == getAllSymbols(p)
        OfType(symbol) ==
            \/ includes(toLowerCase(TypeText(symbol.type)), TypeQuery(query)[1])
            \/ (TypeQuery(query)[1] = FnWord /\ symbol.type = "function")
    IN  IF LabelQuery(query) # <<>>
        THEN findSymbolsByLabel(p, Unspell(LabelQuery(query)[1]))
        ELSE IF TypeQuery(query) # <<>> THEN SelectSeq(allSymbols, OfType)
        ELSE ConcatAll([i \in 1..Len(allSymbols) |->
                           PlainMatches(allSymbols[i], toLowerCase(query))])

\* createSymbolInformation(symbol, uri)
createSymbolInformation(symbol, uri) ==
    [name |-> symbol.name,
     kind |-> CASE symbol.type = "function" -> "Function"
                [] symbol.type \in {"pipeline", "method"} -> "Method"
                [] symbol.type = "class" -> "Class"
                [] symbol.type = "type_alias" -> "TypeParameter"
                [] symbol.type \in {"macro", "constant"} -> "Constant"
                [] OTHER -> "Variable",
     containerName |-> IF symbol.type = "method" /\ Truthy(symbol.className)
                       THEN symbol.className ELSE "",
     location |-> Location(uri, <<symbol.position, symbol.position>>)]

\* What one file adds to a workspace symbol search.
SymbolsIn(uri, table, query) ==
    LET symbols == IF trim(query) # <<>> THEN filterSymbols(table, query)
                   ELSE getAllSymbols(table)
    IN  [i \in 1..Len(symbols) |-> createSymbolInformation(symbols[i], uri)]

\* What one file adds to a go-to-definition.
LocationsIn(uri, table, line, at) ==
    LET symbols == DefinitionsIn(table, line[at].name, IsFunctionCall(line, at),
                                 VersionMatch(line, line[at].name), DotMatch(line, at))
    IN  [i \in 1..Len(symbols) |-> Location(uri, symbols[i].position)]

ScanContents ==
    { Join(<< <<DocTok("advanced")>>, <<LabelTok("a")>>, <<FnTok("sq", Undefined)>> >>),
      Join(<< <<FnTok("sq", Undefined)>>, <<Ident("sq"), LParen, RParen>> >>),
      Join(<< <<ClassTok("T", Undefined), Space, LBrace>>, <<RBrace>>,
              <<Ident("T"), DotTok, Ident("sq"), LParen, RParen>> >>) }

ScanQueries ==
    { <<"a">>, <<"S", "Q">>, <<" ">>, <<"l", "a", "b", "e", "l", ":", " ", "a">>,
      <<"t", ":", "f", "n">> }

\* The line under the cursor and the cursor's token.
ScanCursors ==
    { [lineText |-> <<Ident("sq"), LParen, RParen>>, character |-> 1],
      [lineText |-> <<Ident("T")>>, character |-> 1],
      [lineText |-> <<KeywordTok("fn"), Space, Ident("sq"), LParen, RParen>>,
       character |-> 3] }

\* The frame of a request: its inputs (the query of a symbol search, whether
\* declarations are asked for, the requesting document, the files whose
\* fs.stat rejects), the provider serving it, the index of the next file of the
\* loop, the token and the results gathered so far.
ScanFrames ==
    [query : ScanQueries, includeDeclaration : BOOLEAN, current : Uris,
     failing : SUBSET Uris, provider : {Undefined}, file : {1},
     isCancellationRequested : {FALSE}, results : {<<>>}]

InitScan ==
    /\ files \in [Uris -> [content : ScanContents, mtime : {0}]]
    /\ args \in ScanFrames
    /\ \E cursor \in ScanCursors :
           lineText = cursor.lineText /\ character = cursor.character
    /\ parsedDocuments = NewMap
    /\ pending = {}
    /\ created = 0
    /\ returned = <<>>
    /\ document = <<>>
    /\ parser = NewParser
    /\ op = "new"
    /\ result = <<>>
    /\ dropped = FALSE
    /\ now = 0
    /\ completionCache = NewMap
    /\ generators = <<>>
    /\ completions = <<>>
    /\ usageHistory = NewMap
    /\ contextHistory = <<>>
    /\ accepted = <<>>

scanVars == <<files, pending, returned, document, parser, dropped, lineText, character,
              now, completionCache, generators, completions, usageHistory,
              contextHistory, accepted>>

\* provideWorkspaceSymbols(query, token) up to the loop over the files.
RequestWorkspaceSymbols ==
    /\ op = "new"
    /\ op' = "scanning"
    /\ args' = [args EXCEPT !.provider = "workspaceSymbols"]
    /\ UNCHANGED <<parsedDocuments, created, result>>
    /\ UNCHANGED scanVars

\* provideDefinition(document, position, token) up to the loop over the files.
RequestDefinition ==
    /\ op = "new"
    /\ args' = [args EXCEPT !.provider = "definition"]
    /\ IF WordRange(lineText, character) = <<>> \/ OnDefinitionLine(lineText, character)
       THEN op' = "fulfilled" /\ result' = <<DefinitionResult(<<>>)>>
       ELSE op' = "scanning" /\ UNCHANGED result
    /\ UNCHANGED <<parsedDocuments, created>>
    /\ UNCHANGED scanVars

\* provideReferences(document, position, context, token) up to the loop over the
\* files: getParserForDocument(document) is awaited outside any try block, so
\* the promise rejects when the stat of the requesting document does.
RequestReferences ==
    /\ op = "new"
    /\ args' = [args EXCEPT !.provider = "references"]
    /\ IF WordRange(lineText, character) = <<>>
       THEN op' = "fulfilled" /\ result' = <<>> /\ UNCHANGED <<parsedDocuments, created>>
       ELSE IF args.current \in args.failing
       THEN op' = "rejected" /\ UNCHANGED <<parsedDocuments, created, result>>
       ELSE /\ op' = "scanning"
            /\ parsedDocuments' = CacheWith(parsedDocuments, files, args.current)
            /\ created' = Len(parsedDocuments')
            /\ UNCHANGED result
    /\ UNCHANGED scanVars

\* The token is cancelled while the scan runs.
CancelScan ==
    /\ op = "scanning"
    /\ ~args.isCancellationRequested
    /\ args' = [args EXCEPT !.isCancellationRequested = TRUE]
    /\ UNCHANGED <<op, parsedDocuments, created, result>>
    /\ UNCHANGED scanVars

\* What the body of the loop gathers from a file that was read and parsed.
GatheredIn(provider, uri, table) ==
    CASE provider = "workspaceSymbols" -> SymbolsIn(uri, table, args.query)
      [] provider = "definition" -> LocationsIn(uri, table, lineText, character)
      [] OTHER -> ReferencesIn(uri, files[uri].content, table, lineText[character].name,
                               args.includeDeclaration)

\* A loop that never looks at the token.
NeverBreaks(frame) == frame.file <= Len(ldlFiles)

\* for (const file of ldlFiles) { if (token.isCancellationRequested) break; ...
LoopContinues(frame) == frame.file <= Len(ldlFiles) /\ ~frame.isCancellationRequested

\* One turn of `for (const file of ldlFiles)`: the token is looked at, then the
\* file is opened, stat'ed and parsed inside try; a rejection is caught and logged.
ScanFile ==
    /\ op = "scanning"
    /\ LoopContinues(args)
    /\ LET uri == ldlFiles[args.file]
           cache == CacheWith(parsedDocuments, files, uri)
       IN  IF uri \in args.failing
           THEN /\ args' = [args EXCEPT !.file = @ + 1]
                /\ UNCHANGED <<parsedDocuments, created>>
           ELSE /\ args' = [args EXCEPT
                               !.file = @ + 1,
                               !.results = @ \o GatheredIn(args.provider, uri,
                                                           MapGet(cache, uri).parser.table)]
                /\ parsedDocuments' = cache
                /\ created' = Len(cache)
    /\ UNCHANGED <<op, result>>
    /\ UNCHANGED scanVars

\* The loop ends, by break or after the last file, and the handler returns.
ReturnScan ==
    /\ op = "scanning"
    /\ ~LoopContinues(args)
    /\ op' = "fulfilled"
    /\ result' = IF args.provider = "definition" THEN <<DefinitionResult(args.results)>>
                 ELSE args.results
    /\ UNCHANGED <<args, parsedDocuments, created>>
    /\ UNCHANGED scanVars

NextScan ==
    \/ RequestWorkspaceSymbols
    \/ RequestDefinition
    \/ RequestReferences
    \/ CancelScan
    \/ ScanFile
    \/ ReturnScan

SpecScan == InitScan /\ [][NextScan]_vars

\* What the first n files contribute to the request when each file that cannot
\* be read contributes nothing.
Contribution(n) ==
    ConcatAll([k \in 1..n |->
        IF ldlFiles[k] \in args.failing THEN <<>>
        ELSE GatheredIn(args.provider, ldlFiles[k],
                        parseDocument(NewParser, files[ldlFiles[k]].content))])

\* C21: in a workspace symbol search, a go-to-definition and a find-references, a
\* file that cannot be opened, stat'ed or parsed, the requesting document
\* included, contributes nothing and the failure is never propagated: no request
\* is rejected, and the results gathered are those of the other files.
C21_FailureIsolation ==
    /\ op # "rejected"
    /\ op = "scanning" => args.results = Contribution(args.file - 1)

\* What holds: a failure inside the loop is isolated in all three providers, and
\* a find-references is rejected exactly when its requesting document fails.
C21_IsolatedInsideLoop ==
    /\ op = "rejected" <=> (args.provider = "references" /\ args.current \in args.failing)
    /\ op = "scanning" => args.results = Contribution(args.file - 1)

\* A find-references issued from a.ldl, whose stat fails, was rejected although
\* b.ldl could be read.
C21_Witness ==
    /\ op = "rejected"
    /\ args.provider = "references"
    /\ args.current = "a.ldl"
    /\ args.failing = {"a.ldl"}

\* What the handler returns for the results it gathered.
Answer(provider, results) ==
    IF provider = "definition" THEN <<DefinitionResult(results)>> ELSE results

\* C22: once the token is cancelled while a scan runs, the next step of the scan
\* is its normal return: no further file is opened or parsed (the cache and the
\* number of parsers stay as they are), and the value returned is that of the
\* results gathered from the files processed before, failing files apart.
C22_Cancellation ==
    [][(op = "scanning" /\ args.isCancellationRequested) =>
          /\ op' = "fulfilled"
          /\ args' = args
          /\ parsedDocuments' = parsedDocuments
          /\ created' = created
          /\ result' = Answer(args.provider, Contribution(args.file - 1))]_vars

\* A workspace symbol search cancelled after a.ldl returned a.ldl's symbols only,
\* and b.ldl was never parsed.
C22_Witness ==
    /\ op = "fulfilled"
    /\ args.provider = "workspaceSymbols"
    /\ args.isCancellationRequested
    /\ args.failing = {}
    /\ args.file = 2
    /\ Len(result) > 0
    /\ \A i \in 1..Len(result) : result[i].location.uri = "a.ldl"
    /\ ~MapHas(parsedDocuments, "b.ldl")
    /\ Len(SymbolsIn("b.ldl", parseDocument(NewParser, files["b.ldl"].content), args.query)) > 0
-----------------------------------------------------------------------------
(* The cache of parsed documents while files are written on disk: a file has *)
(* the contents written to it, one per modification time, and its document   *)
(* has the text last loaded from it                                          *)

InitWritten ==
    /\ files \in [Uris -> {[content |-> c, mtime |-> 0, written |-> <<c>>] : c \in Contents}]
    /\ parsedDocuments = NewMap
    /\ pending = {}
    /\ created = 0
    /\ returned = <<>>
    /\ ParserIdle
    /\ CompletionIdle

\* The file is written on disk: its modification time moves on; the document
\* keeps its text until it is reloaded.
WriteFile ==
    \E uri \in Uris, content \in Contents :
        /\ files[uri].mtime < MaxMtime
        /\ content # files[uri].written[files[uri].mtime + 1]
        /\ files' = [files EXCEPT ![uri].mtime = @ + 1,
                                  ![uri].written = Append(@, content)]
        /\ UNCHANGED <<parsedDocuments, pending, created, returned>>
        /\ UNCHANGED <<parserVars, completionVars>>

\* The document is reloaded from the file.
ReloadDocument ==
    \E uri \in Uris :
        /\ files[uri].content # files[uri].written[files[uri].mtime + 1]
        /\ files' = [files EXCEPT ![uri].content = files[uri].written[files[uri].mtime + 1]]
        /\ UNCHANGED <<parsedDocuments, pending, created, returned>>
        /\ UNCHANGED <<parserVars, completionVars>>

NextWritten == WriteFile \/ ReloadDocument \/ StatDocument \/ ResumeCall \/ ClearCache

SpecWritten == InitWritten /\ [][NextWritten]_vars

\* The content the file had at a modification time.
ContentAt(uri, mtime) == files[uri].written[mtime + 1]

\* C23: the retrieve, parse and cache update of a file are atomic with respect to
\* modifications of the file and to other requests: in every reachable state the
\* table of a cache entry is the parse of the content the file had at the
\* entry's recorded modification time.
C23_PerFileAtomicity ==
    \A i \in 1..Len(parsedDocuments) :
        parsedDocuments[i].val.parser.table =
            parseDocument(NewParser,
                          ContentAt(parsedDocuments[i].key, parsedDocuments[i].val.lastModified))

\* What holds: an entry is written in one step, with the parse of the text its
\* document has at that step and the modification time the stat had returned.
C23_EntryOfTextAtParse ==
    [][\A call \in pending :
          (pending' = pending \ {call} /\ parsedDocuments' # parsedDocuments) =>
              /\ MapGet(parsedDocuments', call.uri).parser.table =
                     parseDocument(NewParser, files[call.uri].content)
              /\ MapGet(parsedDocuments', call.uri).lastModified = call.lastModified]_vars

\* a.ldl was written a second time, stat'ed, and parsed before its document was
\* reloaded: the entry holds the table of the first content under the second
\* modification time, and the file is still as the stat saw it.
C23_Witness ==
    /\ MapHas(parsedDocuments, "a.ldl")
    /\ MapGet(parsedDocuments, "a.ldl").lastModified = 1
    /\ files["a.ldl"].mtime = 1
    /\ MapGet(parsedDocuments, "a.ldl").parser.table =
           parseDocument(NewParser, ContentAt("a.ldl", 0))
    /\ ContentAt("a.ldl", 0) # ContentAt("a.ldl", 1)
-----------------------------------------------------------------------------
(* Two parses of the same text *)

\* Parser instances with different pasts: a new one, and one that parsed each
\* one-line document before.
UsedParsers ==
    {NewParser} \cup {parseDocument(NewParser, Join(<<line>>)) : line \in EditLines}

-----------------------------------------------------------------------------
(* The extent of a class body: findClassEndIndex on texts of braces, quotes *)
(* and backslashes                                                         *)

MaxBody == 5

Backslash == Tok("bs", "", "")

BodyChars == {LBrace, RBrace, DQuote, SQuote, Backslash}

InitExtent ==
    /\ \E body \in LineSeqs(BodyChars, MaxBody), startIndex \in {0, 1}, braced \in BOOLEAN :
           /\ document = (IF startIndex = 1 THEN <<LBrace>> ELSE <<>>)
                             \o <<ClassTok("T", Undefined)>>
                             \o (IF braced THEN <<LBrace>> \o body \o <<RBrace>> ELSE body)
           /\ args = [startIndex |-> startIndex]
    /\ parser = NewParser
    /\ op = "new"
    /\ result = <<>>
    /\ dropped = FALSE
    /\ IndexIdle
    /\ CompletionIdle

\* this.findClassEndIndex(text, match.index) for the class declared at startIndex
FindClassEndIndex ==
    /\ op = "new"
    /\ op' = "findClassEndIndex"
    /\ result' = <<findClassEndIndex(document, args.startIndex)>>
    /\ UNCHANGED <<document, parser, args, dropped>>
    /\ UNCHANGED <<indexVars, completionVars>>

NextExtent == FindClassEndIndex

SpecExtent == InitExtent /\ [][NextExtent]_vars

\* The lexical state before the character at offset i, read from offset `from`:
\* the brace depth outside strings, the quote of the open string ("" outside
\* strings) and whether the character is escaped by a backslash of the string.
RECURSIVE Lexed(_, _, _)
Lexed(text, from, i) ==
    IF i <= from THEN [depth |-> 0, quote |-> "", escaped |-> FALSE]
    ELSE LET before == Lexed(text, from, i - 1)
             char == text[i].t
         IN  CASE before.quote = "" /\ char \in {"dq", "sq"} ->
                      [depth |-> before.depth, quote |-> char, escaped |-> FALSE]
               [] before.quote = "" /\ char = "{" ->
                      [depth |-> before.depth + 1, quote |-> "", escaped |-> FALSE]
               [] before.quote = "" /\ char = "}" ->
                      [depth |-> before.depth - 1, quote |-> "", escaped |-> FALSE]
               [] before.quote # "" /\ before.escaped ->
                      [depth |-> before.depth, quote |-> before.quote, escaped |-> FALSE]
               [] before.quote # "" /\ char = "bs" ->
                      [depth |-> before.depth, quote |-> before.quote, escaped |-> TRUE]
               [] before.quote # "" /\ char = before.quote ->
                      [depth |-> before.depth, quote |-> "", escaped |-> FALSE]
               [] OTHER -> before

\* The offsets after the closing braces outside strings that bring the depth
\* counted from the declaration back to zero.
ClosingEnds(text, from) ==
    {i \in (from + 1)..Len(text) :
        /\ text[i].t = "}"
        /\ Lexed(text, from, i - 1).quote = ""
        /\ Lexed(text, from, i).depth = 0}

BodyEnd(text, from) ==
    IF ClosingEnds(text, from) = {} THEN Len(text)
    ELSE CHOOSE i \in ClosingEnds(text, from) : \A j \in ClosingEnds(text, from) : i <= j

\* C25: the end computed for a type body is just after the first closing brace
\* that brings the depth counted from the declaration start back to zero, braces
\* inside quoted strings not counted and a backslash-escaped quote not ending its
\* string; without such a brace it is the end of the text; so start < end <= length.
C25_TypeBodyExtent ==
    op = "findClassEndIndex" =>
        /\ result[1] = BodyEnd(document, args.startIndex)
        /\ args.startIndex < result[1]
        /\ result[1] <= Len(document)

\* A string is closed by a quote that follows an escaped backslash.
EscapedBackslashThenQuote(text, from) ==
    \E i \in (from + 2)..Len(text) :
        /\ text[i].t = Lexed(text, from, i - 1).quote
        /\ text[i - 1].t = "bs"
        /\ ~Lexed(text, from, i - 1).escaped

\* What holds: the bounds always, and the extent whenever no string of the text
\* ends with an escaped backslash.
C25_ExtentUnlessEscapedBackslash ==
    op = "findClassEndIndex" =>
        /\ args.startIndex < result[1]
        /\ result[1] <= Len(document)
        /\ ~EscapedBackslashThenQuote(document, args.startIndex) =>
               result[1] = BodyEnd(document, args.startIndex)

\* class T { "\\" } : the string holds one escaped backslash, the brace after it
\* closes the body, and the end computed is the end of the text instead.
C25_Witness ==
    /\ op = "findClassEndIndex"
    /\ document = <<ClassTok("T", Undefined), LBrace, DQuote, Backslash, Backslash, DQuote,
                    RBrace, RBrace>>
    /\ result[1] = 8
    /\ BodyEnd(document, 0) = 7
-----------------------------------------------------------------------------
(* The sort key of a ranked candidate *)

\* The number written by the first four characters of a sort key.
KeyNumber(sortText) ==
    LET Digit(k) == (CHOOSE d \in 1..10 : DigitSeq[d] = sortText[k]) - 1
    IN  Digit(1) * 1000 + Digit(2) * 100 + Digit(3) * 10 + Digit(4)

\* The score of a candidate as the sum of its four parts.
ScoreOf(item) ==
    LET typed == toLowerCase(LastWord(args.textBeforeCursor))
        label == toLowerCase(item.label)
        match == IF startsWith(label, typed) THEN 100
                 ELSE IF includes(label, typed) THEN 50 ELSE 0
        used == MapHas(usageHistory, item.label)
        frequency == IF used THEN Min2(MapGet(usageHistory, item.label).frequency * 10, 50)
                     ELSE 0
        age == now - MapGet(usageHistory, item.label).lastUsed
        recency == IF ~used THEN 0
                   ELSE IF age < 60000 THEN 30
                   ELSE IF age < 300000 THEN 20
                   ELSE IF age < 3600000 THEN 10 ELSE 0
        context == IF args.currentFunction # <<>> /\ includes(item.detail, args.currentFunction)
                   THEN 25 ELSE 0
    IN  match + frequency + recency + context

\* C26: the sort key of every candidate is 1000 minus its score, the sum of the
\* match, frequency, recency and context parts, written in four digits and
\* followed by `_` and the label; the number lies within 795..1000; and the
\* candidates come out by descending score, equal scores alphabetically by label.
C26_SortKeyEncoding ==
    Ranked =>
        /\ \A i \in 1..Len(result) :
               /\ result[i].sortText =
                      PadStart4(1000 - ScoreOf(result[i])) \o <<"_">> \o result[i].label
               /\ KeyNumber(result[i].sortText) = 1000 - ScoreOf(result[i])
               /\ KeyNumber(result[i].sortText) \in 795..1000
        /\ \A i \in 1..Len(result), j \in 1..Len(result) :
               i < j => \/ ScoreOf(result[i]) > ScoreOf(result[j])
                        \/ /\ ScoreOf(result[i]) = ScoreOf(result[j])
                           /\ ~LocaleLess(result[j].label, result[i].label)

\* Two candidates with the highest score, 205, given as `ba`, `ab`, came out as
\* `ab`, `ba` under the keys 0795_ab and 0795_ba.
C26_Witness ==
    /\ Ranked
    /\ args.items[1].label = <<"b", "a">>
    /\ result[1].sortText = <<"0", "7", "9", "5", "_", "a", "b">>
    /\ result[2].sortText = <<"0", "7", "9", "5", "_", "b", "a">>
-----------------------------------------------------------------------------
(* Functions related to the function that encloses the cursor *)

MaxRelatedLines == 4

Min3(a, b, c) == Min2(a, Min2(b, c))

\* levenshteinDistance(str1, str2): the last cell of the matrix
levenshteinDistance(str1, str2) ==
    LET matrix[i \in 0..Len(str2), j \in 0..Len(str1)] ==
            IF i = 0 THEN j
            ELSE IF j = 0 THEN i
            ELSE IF str2[i] = str1[j] THEN matrix[i - 1, j - 1]
            ELSE Min3(matrix[i - 1, j - 1] + 1, matrix[i, j - 1] + 1, matrix[i - 1, j] + 1)
    IN  matrix[Len(str2), Len(str1)]

\* calculateStringSimilarity(str1, str2) > 0.3, the similarity being
\* (longer.length - editDistance) / longer.length, and 1.0 for two empty strings
SimilarityAboveThreshold(str1, str2) ==
    LET longer == IF Len(str1) > Len(str2) THEN str1 ELSE str2
        shorter == IF Len(str1) > Len(str2) THEN str2 ELSE str1
    IN  IF Len(longer) = 0 THEN TRUE
        ELSE 10 * (Len(longer) - levenshteinDistance(longer, shorter)) > 3 * Len(longer)

\* symbol.labels.some(label => currentFunc.labels.includes(label))
SharesLabel(symbol, currentFunc) ==
    \E i \in 1..Len(symbol.labels) : InSeq(symbol.labels[i], currentFunc.labels)

\* Whether a symbol has a labels array (the parsers of classes, methods, functions
\* and pipelines always set one, empty or not).
HasLabelsArray(symbol) == symbol.type \in {"class", "method", "function", "pipeline"}

\* A symbol is related on a shared label or on a similar name.
RelatedByLabelOrName(p, symbol, functionName) ==
    LET currentFunc == findSymbol(p, functionName, Undefined, Undefined)
    IN  \/ currentFunc # <<>> /\ SharesLabel(symbol, currentFunc[1])
        \/ SimilarityAboveThreshold(Spell(symbol.name), Spell(functionName))

\* areSymbolsRelated(symbol, functionName): the similarity of the names is looked
\* at only when one of the two has no labels array.
areSymbolsRelated(p, symbol, functionName) ==
    LET currentFunc == findSymbol(p, functionName, Undefined, Undefined)
    IN  IF HasLabelsArray(symbol) /\ currentFunc # <<>> /\ HasLabelsArray(currentFunc[1])
        THEN SharesLabel(symbol, currentFunc[1])
        ELSE SimilarityAboveThreshold(Spell(symbol.name), Spell(functionName))

\* getFunctionContextSuggestions(functionName, context)
getFunctionContextSuggestions(p, functionName, documentScope) ==
    LET Related(symbol) ==
            /\ symbol.type = "function"
            /\ symbol.name # functionName
            /\ areSymbolsRelated(p, symbol, functionName)
        relatedFunctions == SelectSeq(documentScope, Related)
    IN  [k \in 1..Min2(Len(relatedFunctions), 5) |->
            CompletionItem(Spell(relatedFunctions[k].name), "Function",
                           <<"related to ">> \o Spell(functionName),
                           <<"a", "a", "_">> \o Spell(relatedFunctions[k].name))]

RelatedLines ==
    { <<FnTok("basic", Undefined)>>, <<FnTok("classic", Undefined)>>,
      <<FnTok("sq", Undefined)>>, <<LabelTok("a")>>, <<LabelTok("b")>> }

RelatedDocs == {Join(ls) : ls \in LineSeqs(RelatedLines, MaxRelatedLines)}

InitRelated ==
    /\ document \in RelatedDocs
    /\ args \in [functionName : {"basic", "classic", "sq"}]
    /\ parser = NewParser
    /\ op = "new"
    /\ result = <<>>
    /\ dropped = FALSE
    /\ IndexIdle
    /\ CompletionIdle

\* The document is parsed and the suggestions for the enclosing function are
\* built from the symbols of the document.
GetFunctionContextSuggestions ==
    /\ op = "new"
    /\ op' = "getFunctionContextSuggestions"
    /\ parser' = parseDocument(parser, document)
    /\ result' = getFunctionContextSuggestions(parser', args.functionName,
                                               getAllSymbols(parser'))
    /\ UNCHANGED <<document, args, dropped>>
    /\ UNCHANGED <<indexVars, completionVars>>

NextRelated == GetFunctionContextSuggestions

SpecRelated == InitRelated /\ [][NextRelated]_vars

Suggested == {result[k].label : k \in 1..Len(result)}

\* The functions of the document other than the enclosing one.
OtherFunctions ==
    {s \in {getAllSymbols(parser)[i] : i \in 1..Len(getAllSymbols(parser))} :
        s.type = "function" /\ s.name # args.functionName}

\* C27: a function other than the enclosing one is suggested as related exactly
\* when it shares a label with the enclosing function or its name is similar to
\* the enclosing function's name, 1 - editDistance / max(len) > 0.3.
C27_RelatedByLabelOrName ==
    op = "getFunctionContextSuggestions" =>
        \A s \in OtherFunctions :
            Spell(s.name) \in Suggested
                <=> \E r \in OtherFunctions :
                        /\ r.name = s.name
                        /\ RelatedByLabelOrName(parser, r, args.functionName)

\* What holds: when the enclosing function is declared in the document, a
\* function is suggested exactly when it shares a label with it; the names are
\* compared only when the enclosing function is not in the table.
C27_RelatedByLabelWhenDeclared ==
    op = "getFunctionContextSuggestions" =>
        \A s \in OtherFunctions :
            Spell(s.name) \in Suggested
                <=> \E r \in OtherFunctions :
                        /\ r.name = s.name
                        /\ IF MapHas(parser.symbols, args.functionName)
                           THEN SharesLabel(r, MapGet(parser.symbols, args.functionName)[1])
                           ELSE SimilarityAboveThreshold(Spell(r.name),
                                                         Spell(args.functionName))

\* `fn basic` and `fn classic`, both without labels and with similar names
\* (distance 3 over 7 characters): inside `basic`, `classic` is not suggested.
C27_Witness ==
    /\ op = "getFunctionContextSuggestions"
    /\ document = Join(<< <<FnTok("basic", Undefined)>>, <<FnTok("classic", Undefined)>> >>)
    /\ args.functionName = "basic"
    /\ SimilarityAboveThreshold(Spell("classic"), Spell("basic"))
    /\ levenshteinDistance(Spell("classic"), Spell("basic")) = 3
    /\ result = <<>>
-----------------------------------------------------------------------------
(* The keyword position and the call position *)

\* C28: whenever the text before the cursor is a keyword position it is a call
\* position too, so no computed request has the keyword generator as its primary
\* generator.
C28_KeywordNeverPrimary ==
    /\ isKeywordContext(TextBeforeCursor) => isFunctionCallContext(TextBeforeCursor)
    /\ op = "provideCompletionItems" =>
           \A i \in 1..Len(generators) : generators[i].generator # "keyword"

\* After `let x`, a keyword position that is not at the line start, the request
\* ran the function generator.
C28_Witness ==
    /\ op = "provideCompletionItems"
    /\ TextBeforeCursor = LetWord \o <<" ", "x">>
    /\ isKeywordContext(TextBeforeCursor)
    /\ ~TailSpacesThen(TextBeforeCursor, 1, Alpha)
    /\ PrimaryCalls[1].generator = "function"
-----------------------------------------------------------------------------
(* The entries of the cache of parsed documents over time *)

-----------------------------------------------------------------------------
(* A workspace symbol search by a plain query *)

\* The query is neither blank nor a label: or type: query.
PlainQuery(query) == trim(query) # <<>> /\ LabelQuery(query) = <<>> /\ TypeQuery(query) = <<>>

\* A completed search of all the files, none of which failed.
SearchedAll ==
    /\ op = "fulfilled"
    /\ args.provider = "workspaceSymbols"
    /\ args.failing = {}
    /\ args.file > Len(ldlFiles)

\* How many times a symbol of a file is among the results.
TimesReturned(uri, symbol) ==
    Cardinality({k \in 1..Len(result) : result[k] = createSymbolInformation(symbol, uri)})

NameContains(symbol, query) ==
    includes(toLowerCase(Spell(symbol.name)), toLowerCase(query))

LabelContains(symbol, query) ==
    \E i \in 1..Len(symbol.labels) :
        includes(toLowerCase(Spell(symbol.labels[i])), toLowerCase(query))

DocumentationContains(symbol, query) ==
    /\ Truthy(symbol.documentation)
    /\ includes(toLowerCase(Spell(symbol.documentation)), toLowerCase(query))

SymbolsOfFile(uri) ==
    LET all == getAllSymbols(parseDocument(NewParser, files[uri].content))
    IN  {all[i] : i \in 1..Len(all)}

\* C30: a search by a plain query returns each symbol of a file at most once, and
\* exactly the symbols whose name, labels or documentation contain the query
\* without regard to case.
C30_PlainSearchOncePerSymbol ==
    (SearchedAll /\ PlainQuery(args.query)) =>
        \A uri \in Uris : \A symbol \in SymbolsOfFile(uri) :
            TimesReturned(uri, symbol) =
                IF \/ NameContains(symbol, args.query)
                   \/ LabelContains(symbol, args.query)
                   \/ DocumentationContains(symbol, args.query)
                THEN 1 ELSE 0

\* What holds: the symbols returned are exactly those that contain the query, and
\* a symbol is returned twice when its name does not contain the query and both
\* a label and the documentation do.
C30_TwiceOnLabelAndDocumentation ==
    (SearchedAll /\ PlainQuery(args.query)) =>
        \A uri \in Uris : \A symbol \in SymbolsOfFile(uri) :
            TimesReturned(uri, symbol) =
                IF NameContains(symbol, args.query) THEN 1
                ELSE (IF LabelContains(symbol, args.query) THEN 1 ELSE 0)
                     + (IF DocumentationContains(symbol, args.query) THEN 1 ELSE 0)

\* `fn sq` labelled `a` and documented `advanced`, searched by `a`: returned twice.
C30_Witness ==
    /\ SearchedAll
    /\ args.query = <<"a">>
    /\ files["a.ldl"].content =
           Join(<< <<DocTok("advanced")>>, <<LabelTok("a")>>, <<FnTok("sq", Undefined)>> >>)
    /\ \E symbol \in SymbolsOfFile("a.ldl") :
           symbol.name = "sq" /\ TimesReturned("a.ldl", symbol) = 2

====
